---------------------------- MODULE Spec2Model ----------------------------
(***************************************************************************)
(* ProjectCompass: the inquiry pipeline of src/agent_system.               *)
(*                                                                         *)
(* AgentManager.handle_inquiry passes one Inquiry through AnalysisAgent,   *)
(* PrioritizationAgent, RoutingAgent, NotificationAgent and                *)
(* MonitoringAgent.  The module models the record, the five agents, the    *)
(* coordinator's position inside handle_inquiry, and the in-memory         *)
(* collaborators the agents read.                                          *)
(*                                                                         *)
(* Text.  Python's `keyword in text` is a substring test on the lowered    *)
(* text f"{subject} {content}".  A message is a subject and a body drawn   *)
(* from a small vocabulary of phrases; Lower is str.lower on the           *)
(* vocabulary and SubstringsOf lists, for every lowered phrase, the        *)
(* keywords of the source's tables that occur in it as substrings.  No     *)
(* keyword spans the blank between a subject and a body of the vocabulary, *)
(* so the keywords of the joined text are the union of the two sets.       *)
(*                                                                         *)
(* Time is an integer number of hours; `now` is the last value read from   *)
(* datetime.now(), and every reading is at or after the previous one.      *)
(***************************************************************************)
EXTENDS Integers, Sequences, FiniteSets, TLC

(***************************************************************************)
(* Bounds of the exploration.                                              *)
(***************************************************************************)
MaxInquiries == 2
MaxCalls == 2
MaxTime == 1
MaxErrorCalls == 1002
MaxActivityCalls == 1002
MaxThreads == 2
MaxServiceCalls == 3

\* str-valued None (Optional[str], Optional[enum]) and None for datetimes.
None == "None"
NoTime == -1

(***************************************************************************)
(* models/inquiry.py: the closed enumerations.                             *)
(***************************************************************************)
InquiryCategory ==
    { "PREQUALIFICATION", "FINANCE", "CONTRACT", "BIDDING", "ISSUE",
      "INFORMATION", "OTHER" }

InquiryType ==
    { "APPLICATION_STATUS", "DOCUMENT_SUBMISSION", "ELIGIBILITY_CRITERIA",
      "PAYMENT_STATUS", "INVOICE_ISSUE", "TAX_DOCUMENTATION",
      "CONTRACT_TERMS", "RENEWAL", "AMENDMENT",
      "BID_SUBMISSION", "BID_CLARIFICATION", "BID_RESULTS",
      "TECHNICAL_ISSUE", "PORTAL_ACCESS", "DELIVERY_ISSUE",
      "PROCESS_INFORMATION", "DOCUMENTATION_REQUEST", "CONTACT_REQUEST",
      "GENERAL" }

InquiryPriority == { "CRITICAL", "HIGH", "MEDIUM", "LOW", "INFORMATIONAL" }

InquiryStatus ==
    { "NEW", "CATEGORIZED", "PRIORITIZED", "ASSIGNED", "IN_PROGRESS",
      "PENDING_INFO", "RESOLVED", "CLOSED", "ESCALATED" }

(***************************************************************************)
(* The keyword, priority and routing tables of the three agents, in the    *)
(* insertion order of the source's dict literals.                          *)
(***************************************************************************)
category_keywords_order ==
    << "PREQUALIFICATION", "FINANCE", "CONTRACT", "BIDDING", "ISSUE",
    "INFORMATION" >>

category_keywords ==
       ("PREQUALIFICATION" :> <<
            "prequalification", "pre-qualification", "qualify",
            "qualification", "prerequisites", "pre-requisites",
            "registration", "onboarding" >>)
    @@ ("FINANCE" :> <<
            "payment", "invoice", "billing", "financial", "tax", "finance",
            "accounting", "receipt", "reimbursement", "credit", "debit" >>)
    @@ ("CONTRACT" :> <<
            "contract", "agreement", "terms", "conditions", "clause",
            "termination", "renewal", "amendment", "legal", "contractual" >>)
    @@ ("BIDDING" :> <<
            "bid", "tender", "proposal", "rfp", "rfi", "rfq", "offer",
            "quotation", "submission", "procurement", "pricing" >>)
    @@ ("ISSUE" :> <<
            "issue", "problem", "error", "mistake", "bug", "defect",
            "malfunction", "trouble", "difficulty", "complaint", "concern" >>)
    @@ ("INFORMATION" :> <<
            "information", "details", "guide", "instructions",
            "clarification", "explain", "process", "procedure", "steps",
            "how to", "help" >>)

type_keywords_order ==
    << "APPLICATION_STATUS", "DOCUMENT_SUBMISSION", "PAYMENT_STATUS",
    "CONTRACT_TERMS", "BID_SUBMISSION", "TECHNICAL_ISSUE",
    "PROCESS_INFORMATION" >>

type_keywords ==
       ("APPLICATION_STATUS" :> <<
            "status", "application", "progress", "submitted", "review",
            "accepted", "rejected" >>)
    @@ ("DOCUMENT_SUBMISSION" :> <<
            "document", "upload", "submit", "attach", "certificate", "form",
            "paperwork" >>)
    @@ ("PAYMENT_STATUS" :> <<
            "payment", "paid", "pending", "overdue", "scheduled", "processed" >>)
    @@ ("CONTRACT_TERMS" :> <<
            "terms", "conditions", "clause", "agreement", "provision",
            "stipulation" >>)
    @@ ("BID_SUBMISSION" :> <<
            "submit", "submission", "deadline", "requirements", "upload",
            "proposal" >>)
    @@ ("TECHNICAL_ISSUE" :> <<
            "technical", "system", "error", "platform", "website", "portal",
            "login" >>)
    @@ ("PROCESS_INFORMATION" :> <<
            "process", "procedure", "steps", "information", "guide",
            "instruction", "timeline" >>)

category_priorities ==
       ("PREQUALIFICATION" :> "MEDIUM")
    @@ ("FINANCE" :> "HIGH")
    @@ ("CONTRACT" :> "HIGH")
    @@ ("BIDDING" :> "HIGH")
    @@ ("ISSUE" :> "HIGH")
    @@ ("INFORMATION" :> "LOW")
    @@ ("OTHER" :> "MEDIUM")

type_priorities ==
       ("TECHNICAL_ISSUE" :> "CRITICAL")
    @@ ("PORTAL_ACCESS" :> "HIGH")
    @@ ("PAYMENT_STATUS" :> "HIGH")
    @@ ("INVOICE_ISSUE" :> "HIGH")
    @@ ("CONTRACT_TERMS" :> "HIGH")
    @@ ("RENEWAL" :> "HIGH")
    @@ ("BID_SUBMISSION" :> "HIGH")
    @@ ("BID_CLARIFICATION" :> "HIGH")
    @@ ("APPLICATION_STATUS" :> "MEDIUM")
    @@ ("DOCUMENT_SUBMISSION" :> "MEDIUM")
    @@ ("ELIGIBILITY_CRITERIA" :> "MEDIUM")
    @@ ("TAX_DOCUMENTATION" :> "MEDIUM")
    @@ ("AMENDMENT" :> "MEDIUM")
    @@ ("BID_RESULTS" :> "MEDIUM")
    @@ ("PROCESS_INFORMATION" :> "LOW")
    @@ ("DOCUMENTATION_REQUEST" :> "LOW")
    @@ ("CONTACT_REQUEST" :> "LOW")
    @@ ("GENERAL" :> "LOW")

urgency_keywords ==
       ("critical" :> <<
            "urgent", "immediately", "asap", "emergency", "critical",
            "crucial", "deadline", "today", "serious", "severe",
            "time-sensitive" >>)
    @@ ("high" :> <<
            "important", "priority", "high priority", "significant",
            "pressing", "expedite", "quickly", "fast", "soon", "promptly" >>)
    @@ ("low" :> <<
            "whenever", "no rush", "at your convenience", "when possible",
            "not urgent", "routine", "regular", "standard" >>)

followup_phrases ==
    << "following up", "follow up", "follow-up", "following-up",
    "previous email", "earlier email", "still waiting", "haven't heard",
    "no response", "any update" >>

deadline_phrases ==
    << "deadline", "due date", "due by", "by tomorrow", "this week",
    "end of week", "by friday", "by monday" >>

imminent_phrases ==
    << "today", "tomorrow", "asap", "immediately", "right away", "urgent",
    "within 24 hours" >>

delay_phrases ==
    << "delayed", "waiting for", "long time", "weeks ago", "still pending",
    "overdue", "late" >>

department_routing ==
       ("PREQUALIFICATION" :> "Vendor Registration")
    @@ ("FINANCE" :> "Finance")
    @@ ("CONTRACT" :> "Legal")
    @@ ("BIDDING" :> "Procurement")
    @@ ("ISSUE" :> "Technical Support")
    @@ ("INFORMATION" :> "Vendor Relations")
    @@ ("OTHER" :> "Vendor Relations")

type_routing ==
       ("APPLICATION_STATUS" :> "Vendor Registration")
    @@ ("DOCUMENT_SUBMISSION" :> "Vendor Registration")
    @@ ("ELIGIBILITY_CRITERIA" :> "Vendor Registration")
    @@ ("PAYMENT_STATUS" :> "Accounts Payable")
    @@ ("INVOICE_ISSUE" :> "Accounts Payable")
    @@ ("TAX_DOCUMENTATION" :> "Finance")
    @@ ("CONTRACT_TERMS" :> "Legal")
    @@ ("RENEWAL" :> "Contract Management")
    @@ ("AMENDMENT" :> "Contract Management")
    @@ ("BID_SUBMISSION" :> "Procurement")
    @@ ("BID_CLARIFICATION" :> "Procurement")
    @@ ("BID_RESULTS" :> "Procurement")
    @@ ("TECHNICAL_ISSUE" :> "Technical Support")
    @@ ("PORTAL_ACCESS" :> "Technical Support")
    @@ ("DELIVERY_ISSUE" :> "Logistics")
    @@ ("PROCESS_INFORMATION" :> "Vendor Relations")
    @@ ("DOCUMENTATION_REQUEST" :> "Vendor Relations")
    @@ ("CONTACT_REQUEST" :> "Vendor Relations")
    @@ ("GENERAL" :> "Vendor Relations")

priority_teams ==
       ("CRITICAL" :> <<
            "urgent_response_team", "department_head" >>)
    @@ ("HIGH" :> <<
            "senior_specialist", "specialist" >>)
    @@ ("MEDIUM" :> <<
            "specialist", "associate" >>)
    @@ ("LOW" :> <<
            "associate", "assistant" >>)
    @@ ("INFORMATIONAL" :> <<
            "assistant" >>)

department_staff ==
       ("Vendor Registration" :> <<
            <<"department_head", "registration.head@example.com">>,
            <<"senior_specialist", "registration.senior@example.com">>,
            <<"specialist", "registration.specialist@example.com">>,
            <<"associate", "registration.associate@example.com">>,
            <<"assistant", "registration.assistant@example.com">>,
            <<"urgent_response_team", "registration.urgent@example.com">> >>)
    @@ ("Finance" :> <<
            <<"department_head", "finance.head@example.com">>,
            <<"senior_specialist", "finance.senior@example.com">>,
            <<"specialist", "finance.specialist@example.com">>,
            <<"associate", "finance.associate@example.com">>,
            <<"assistant", "finance.assistant@example.com">>,
            <<"urgent_response_team", "finance.urgent@example.com">> >>)
    @@ ("Accounts Payable" :> <<
            <<"department_head", "ap.head@example.com">>,
            <<"senior_specialist", "ap.senior@example.com">>,
            <<"specialist", "ap.specialist@example.com">>,
            <<"associate", "ap.associate@example.com">>,
            <<"assistant", "ap.assistant@example.com">>,
            <<"urgent_response_team", "ap.urgent@example.com">> >>)
    @@ ("Legal" :> <<
            <<"department_head", "legal.head@example.com">>,
            <<"senior_specialist", "legal.senior@example.com">>,
            <<"specialist", "legal.specialist@example.com">>,
            <<"associate", "legal.associate@example.com">>,
            <<"assistant", "legal.assistant@example.com">>,
            <<"urgent_response_team", "legal.urgent@example.com">> >>)
    @@ ("Contract Management" :> <<
            <<"department_head", "contracts.head@example.com">>,
            <<"senior_specialist", "contracts.senior@example.com">>,
            <<"specialist", "contracts.specialist@example.com">>,
            <<"associate", "contracts.associate@example.com">>,
            <<"assistant", "contracts.assistant@example.com">>,
            <<"urgent_response_team", "contracts.urgent@example.com">> >>)
    @@ ("Procurement" :> <<
            <<"department_head", "procurement.head@example.com">>,
            <<"senior_specialist", "procurement.senior@example.com">>,
            <<"specialist", "procurement.specialist@example.com">>,
            <<"associate", "procurement.associate@example.com">>,
            <<"assistant", "procurement.assistant@example.com">>,
            <<"urgent_response_team", "procurement.urgent@example.com">> >>)
    @@ ("Technical Support" :> <<
            <<"department_head", "support.head@example.com">>,
            <<"senior_specialist", "support.senior@example.com">>,
            <<"specialist", "support.specialist@example.com">>,
            <<"associate", "support.associate@example.com">>,
            <<"assistant", "support.assistant@example.com">>,
            <<"urgent_response_team", "support.urgent@example.com">> >>)
    @@ ("Logistics" :> <<
            <<"department_head", "logistics.head@example.com">>,
            <<"senior_specialist", "logistics.senior@example.com">>,
            <<"specialist", "logistics.specialist@example.com">>,
            <<"associate", "logistics.associate@example.com">>,
            <<"assistant", "logistics.assistant@example.com">>,
            <<"urgent_response_team", "logistics.urgent@example.com">> >>)
    @@ ("Vendor Relations" :> <<
            <<"department_head", "relations.head@example.com">>,
            <<"senior_specialist", "relations.senior@example.com">>,
            <<"specialist", "relations.specialist@example.com">>,
            <<"associate", "relations.associate@example.com">>,
            <<"assistant", "relations.assistant@example.com">>,
            <<"urgent_response_team", "relations.urgent@example.com">> >>)

Subjects ==
    { "Inquiry", "URGENT invoice payment overdue", "No rush" }

Bodies ==
    { "hello there", "following up on the guide", "portal login error",
    "Not urgent", "important contract renewal terms",
    "deadline for bid submission", "application status",
    "question about an invoice" }

Lower ==
       ("Inquiry" :> "inquiry")
    @@ ("URGENT invoice payment overdue" :> "urgent invoice payment overdue")
    @@ ("No rush" :> "no rush")
    @@ ("hello there" :> "hello there")
    @@ ("following up on the guide" :> "following up on the guide")
    @@ ("portal login error" :> "portal login error")
    @@ ("Not urgent" :> "not urgent")
    @@ ("important contract renewal terms" :> "important contract renewal terms")
    @@ ("deadline for bid submission" :> "deadline for bid submission")
    @@ ("application status" :> "application status")
    @@ ("question about an invoice" :> "question about an invoice")

SubstringsOf ==
       ("inquiry" :> {})
    @@ ("urgent invoice payment overdue" :> {"invoice", "overdue", "payment", "urgent"})
    @@ ("no rush" :> {"no rush"})
    @@ ("hello there" :> {})
    @@ ("following up on the guide" :> {"following up", "guide"})
    @@ ("portal login error" :> {"error", "login", "portal"})
    @@ ("not urgent" :> {"not urgent", "urgent"})
    @@ ("important contract renewal terms" :> {"contract", "important", "renewal", "terms"})
    @@ ("deadline for bid submission" :> {"bid", "deadline", "submission"})
    @@ ("application status" :> {"application", "status"})
    @@ ("question about an invoice" :> {"invoice"})

(***************************************************************************)
(* Helpers: sequences as Python lists, exact rationals <<n, d>> in lowest  *)
(* terms for the confidence scores.                                        *)
(***************************************************************************)
Range(s) == { s[i] : i \in 1..Len(s) }

Max(S) == CHOOSE x \in S : \A y \in S : y <= x

RECURSIVE GCD(_, _)
GCD(a, b) == IF b = 0 THEN a ELSE GCD(b, a % b)

Rat(n, d) == << n \div GCD(n, d), d \div GCD(n, d) >>

RatAdd(a, b) == Rat(a[1] * b[2] + b[1] * a[2], a[2] * b[2])

RatLeq(a, b) == a[1] * b[2] <= b[1] * a[2]

RatMin(a, b) == IF RatLeq(a, b) THEN a ELSE b

RatHalf(a) == Rat(a[1], 2 * a[2])

\* `keyword in f"{subject} {content}".lower()`
TextKeywords(subject, content) ==
    SubstringsOf[Lower[subject]] \cup SubstringsOf[Lower[content]]

\* `keyword in content.lower()`
ContentKeywords(content) == SubstringsOf[Lower[content]]

\* any(keyword in text for keyword in keywords)
AnyIn(keywords, hits) == \E i \in 1..Len(keywords) : keywords[i] \in hits

\* sum(1 for keyword in keywords if keyword in text)
KeywordScore(keywords, hits) ==
    Cardinality({ i \in 1..Len(keywords) : keywords[i] \in hits })

\* A max that answers the last key, in insertion order, carrying the
\* maximal score.
LastMaxKey(order, scores) ==
    LET m == Max({ scores[order[i]] : i \in 1..Len(order) })
        i == CHOOSE j \in 1..Len(order) :
                 /\ scores[order[j]] = m
                 /\ \A k \in (j + 1)..Len(order) : scores[order[k]] # m
    IN  order[i]

\* max(scores.items(), key=lambda x: x[1])[0]: the first key, in insertion
\* order, that carries the maximal score.
FirstMaxKey(order, scores) ==
    LET m == Max({ scores[order[i]] : i \in 1..Len(order) })
        i == CHOOSE j \in 1..Len(order) :
                 /\ scores[order[j]] = m
                 /\ \A k \in 1..(j - 1) : scores[order[k]] # m
    IN  order[i]

SumScores(order, scores) ==
    LET RECURSIVE Sum(_)
        Sum(i) == IF i = 0 THEN 0 ELSE scores[order[i]] + Sum(i - 1)
    IN  Sum(Len(order))

(***************************************************************************)
(* AnalysisAgent (the Classifier).                                         *)
(***************************************************************************)
\* _categorize_inquiry without the cap at 1.0.
_categorize_inquiry_NoCap(hits) ==
    LET order == category_keywords_order
        scores == [ c \in Range(order) |->
                        KeywordScore(category_keywords[c], hits) ]
        best == FirstMaxKey(order, scores)
        total == SumScores(order, scores)
    IN  IF Max({ scores[c] : c \in Range(order) }) = 0
        THEN << "OTHER", Rat(1, 2) >>
        ELSE << best, RatAdd(Rat(scores[best], total), Rat(3, 10)) >>

\* _categorize_inquiry: <<category, confidence>>
_categorize_inquiry(hits) ==
    LET order == category_keywords_order
        scores == [ c \in Range(order) |->
                        KeywordScore(category_keywords[c], hits) ]
        best == FirstMaxKey(order, scores)
        total == SumScores(order, scores)
    IN  IF Max({ scores[c] : c \in Range(order) }) = 0
        THEN << "OTHER", Rat(1, 2) >>
        ELSE << best,
                RatMin(RatAdd(Rat(scores[best], total), Rat(3, 10)),
                       Rat(1, 1)) >>

\* _determine_inquiry_type: <<inquiry_type, confidence>>
_determine_inquiry_type(hits) ==
    LET order == type_keywords_order
        scores == [ t \in Range(order) |->
                        KeywordScore(type_keywords[t], hits) ]
        best == FirstMaxKey(order, scores)
        total == SumScores(order, scores)
    IN  IF Max({ scores[t] : t \in Range(order) }) = 0
        THEN << "GENERAL", Rat(1, 2) >>
        ELSE << best, Rat(scores[best], total) >>

\* analyze_inquiry: the record after the Classifier has run.
analyze_inquiry(inquiry) ==
    LET hits == TextKeywords(inquiry.subject, inquiry.raw_content)
        cat == _categorize_inquiry(hits)
        typ == _determine_inquiry_type(hits)
    IN  [ inquiry EXCEPT !.category = cat[1],
                         !.inquiry_type = typ[1],
                         !.confidence_score = RatHalf(RatAdd(cat[2], typ[2])),
                         !.status = "CATEGORIZED" ]

(***************************************************************************)
(* PrioritizationAgent (the Priority Engine).                              *)
(***************************************************************************)
\* _get_base_priority that consults the category table before the type
\* table.
_get_base_priority_CategoryFirst(inquiry) ==
    IF inquiry.category \in DOMAIN category_priorities
    THEN category_priorities[inquiry.category]
    ELSE IF inquiry.inquiry_type # None
            /\ inquiry.inquiry_type \in DOMAIN type_priorities
         THEN type_priorities[inquiry.inquiry_type]
         ELSE "MEDIUM"

_get_base_priority(inquiry) ==
    IF inquiry.inquiry_type # None
       /\ inquiry.inquiry_type \in DOMAIN type_priorities
    THEN type_priorities[inquiry.inquiry_type]
    ELSE IF inquiry.category \in DOMAIN category_priorities
         THEN category_priorities[inquiry.category]
         ELSE "MEDIUM"

\* _check_urgency_keywords with the low set tested first.
_check_urgency_keywords_LowFirst(hits) ==
    IF AnyIn(urgency_keywords["low"], hits) THEN "LOW"
    ELSE IF AnyIn(urgency_keywords["critical"], hits) THEN "CRITICAL"
    ELSE IF AnyIn(urgency_keywords["high"], hits) THEN "HIGH"
    ELSE None

_check_urgency_keywords(hits) ==
    IF AnyIn(urgency_keywords["critical"], hits) THEN "CRITICAL"
    ELSE IF AnyIn(urgency_keywords["high"], hits) THEN "HIGH"
    ELSE IF AnyIn(urgency_keywords["low"], hits) THEN "LOW"
    ELSE None

_is_followup_inquiry(inquiry) ==
    \/ inquiry.in_reply_to # None
    \/ AnyIn(followup_phrases, ContentKeywords(inquiry.raw_content))

_check_time_factors(hits) ==
    [ has_deadline   |-> AnyIn(deadline_phrases, hits),
      deadline_soon  |-> AnyIn(imminent_phrases, hits),
      mentions_delay |-> AnyIn(delay_phrases, hits) ]

\* What prioritization_service.get_vendor_data may answer: there is no
\* service to ask ("absent"), it raises, it returns None, or it returns a
\* dict (a missing key reads as False).
VendorDataResponses ==
    { [ kind |-> "absent" ], [ kind |-> "raise" ], [ kind |-> "None" ] }
    \cup { [ kind |-> "dict", is_key |-> k, has_active_contract |-> c,
             has_history |-> h ] : k \in BOOLEAN, c \in BOOLEAN,
                                   h \in BOOLEAN }

NoVendorFactors ==
    [ is_key_vendor |-> FALSE, has_active_contract |-> FALSE,
      has_history |-> FALSE ]

\* _check_vendor_factors taking a vendor without data for a key vendor.
_check_vendor_factors_MissIsKey(inquiry, response) ==
    IF inquiry.vendor_id # None /\ response.kind = "dict"
    THEN [ is_key_vendor       |-> response.is_key,
           has_active_contract |-> response.has_active_contract,
           has_history         |-> response.has_history ]
    ELSE [ NoVendorFactors EXCEPT !.is_key_vendor = inquiry.vendor_id # None ]

_check_vendor_factors(inquiry, response) ==
    IF inquiry.vendor_id # None /\ response.kind = "dict"
    THEN [ is_key_vendor       |-> response.is_key,
           has_active_contract |-> response.has_active_contract,
           has_history         |-> response.has_history ]
    ELSE NoVendorFactors

\* The one-step bump going on from HIGH to CRITICAL.
Bump_ToCritical(priority) ==
    IF priority = "LOW" THEN "MEDIUM"
    ELSE IF priority = "MEDIUM" THEN "HIGH"
    ELSE IF priority = "HIGH" THEN "CRITICAL"
    ELSE priority

\* The one-step bump shared by the follow-up, delay and key-vendor rules.
Bump(priority) ==
    IF priority = "LOW" THEN "MEDIUM"
    ELSE IF priority = "MEDIUM" THEN "HIGH"
    ELSE priority

\* The first block with a low urgency keyword taking the priority down to
\* LOW.
Step4a_LowLowers(base_priority, keyword_priority) ==
    IF keyword_priority = "CRITICAL" THEN "CRITICAL"
    ELSE IF keyword_priority = "LOW" THEN "LOW"
    ELSE IF keyword_priority = "HIGH" \/ base_priority = "HIGH" THEN "HIGH"
    ELSE IF keyword_priority = "MEDIUM" \/ base_priority = "MEDIUM"
         THEN "MEDIUM"
    ELSE "LOW"

\* "Start with the highest priority among base and keyword"
Step4a(base_priority, keyword_priority) ==
    IF keyword_priority = "CRITICAL" THEN "CRITICAL"
    ELSE IF keyword_priority = "HIGH" \/ base_priority = "HIGH" THEN "HIGH"
    ELSE IF keyword_priority = "MEDIUM" \/ base_priority = "MEDIUM"
         THEN "MEDIUM"
    ELSE "LOW"

Step4b(priority, is_followup) ==
    IF is_followup /\ priority # "CRITICAL" THEN Bump(priority) ELSE priority

\* Step4c with the CRITICAL test of the deadline_soon branch left out.
Step4c_ForcesHigh(priority, time_factors) ==
    IF time_factors.deadline_soon THEN "HIGH"
    ELSE IF time_factors.has_deadline /\ priority = "LOW" THEN "MEDIUM"
    ELSE priority

Step4c(priority, time_factors) ==
    IF time_factors.deadline_soon
    THEN IF priority # "CRITICAL" THEN "HIGH" ELSE priority
    ELSE IF time_factors.has_deadline /\ priority = "LOW" THEN "MEDIUM"
    ELSE priority

Step4d(priority, time_factors) ==
    IF time_factors.mentions_delay /\ priority # "CRITICAL"
    THEN Bump(priority) ELSE priority

Step4e(priority, vendor_factors) ==
    IF vendor_factors.is_key_vendor /\ priority # "CRITICAL"
    THEN Bump(priority) ELSE priority

_determine_final_priority(base_priority, keyword_priority, is_followup, time_factors, vendor_factors) ==
    Step4e(Step4d(Step4c(Step4b(Step4a(base_priority, keyword_priority),
                                is_followup),
                         time_factors),
                  time_factors),
           vendor_factors)

\* _calculate_due_date with the MEDIUM branch left out.
_calculate_due_date_NoMedium(priority, instant) ==
    IF priority = "CRITICAL" THEN instant + 2
    ELSE IF priority = "HIGH" THEN instant + 8
    ELSE instant + 72

\* _calculate_due_date, in hours from `instant` (datetime.now()).
_calculate_due_date(priority, instant) ==
    IF priority = "CRITICAL" THEN instant + 2
    ELSE IF priority = "HIGH" THEN instant + 8
    ELSE IF priority = "MEDIUM" THEN instant + 24
    ELSE instant + 72

\* prioritize_inquiry: the record after the Priority Engine has run.
prioritize_inquiry(inquiry, response, instant) ==
    LET hits == TextKeywords(inquiry.subject, inquiry.raw_content)
        final_priority ==
            _determine_final_priority(
                _get_base_priority(inquiry),
                _check_urgency_keywords(hits),
                _is_followup_inquiry(inquiry),
                _check_time_factors(hits),
                _check_vendor_factors(inquiry, response))
    IN  [ inquiry EXCEPT !.priority = final_priority,
                         !.due_by = _calculate_due_date(final_priority,
                                                        instant) ]

(***************************************************************************)
(* RoutingAgent (the Router).                                              *)
(***************************************************************************)
\* _determine_department with the category table consulted first.
_determine_department_CategoryFirst(inquiry) ==
    IF inquiry.category \in DOMAIN department_routing
    THEN department_routing[inquiry.category]
    ELSE IF inquiry.inquiry_type # None
            /\ inquiry.inquiry_type \in DOMAIN type_routing
         THEN type_routing[inquiry.inquiry_type]
         ELSE "Vendor Relations"

_determine_department(inquiry) ==
    IF inquiry.inquiry_type # None
       /\ inquiry.inquiry_type \in DOMAIN type_routing
    THEN type_routing[inquiry.inquiry_type]
    ELSE IF inquiry.category \in DOMAIN department_routing
         THEN department_routing[inquiry.category]
         ELSE "Vendor Relations"

\* `role in staff_map` and staff_map[role] on an ordered dict of pairs.
HasRole(staff_map, role) == \E i \in 1..Len(staff_map) : staff_map[i][1] = role

StaffOf(staff_map, role) ==
    staff_map[CHOOSE i \in 1..Len(staff_map) : staff_map[i][1] = role][2]

\* _determine_assignee returning the last listed role that is present.
_determine_assignee_LastRole(inquiry, department) ==
    LET roles == IF inquiry.priority \in DOMAIN priority_teams
                 THEN priority_teams[inquiry.priority]
                 ELSE << "specialist" >>
        dept == IF department \in DOMAIN department_staff
                THEN department ELSE "Vendor Relations"
        staff_map == department_staff[dept]
        present == { i \in 1..Len(roles) : HasRole(staff_map, roles[i]) }
    IN  IF present # {}
        THEN StaffOf(staff_map,
                     roles[CHOOSE i \in present : \A j \in present : i >= j])
        ELSE IF HasRole(staff_map, "specialist")
             THEN StaffOf(staff_map, "specialist")
             ELSE staff_map[1][2]

_determine_assignee(inquiry, department) ==
    LET roles == IF inquiry.priority \in DOMAIN priority_teams
                 THEN priority_teams[inquiry.priority]
                 ELSE << "specialist" >>
        dept == IF department \in DOMAIN department_staff
                THEN department ELSE "Vendor Relations"
        staff_map == department_staff[dept]
        present == { i \in 1..Len(roles) : HasRole(staff_map, roles[i]) }
    IN  IF present # {}
        THEN StaffOf(staff_map,
                     roles[CHOOSE i \in present : \A j \in present : i <= j])
        ELSE IF HasRole(staff_map, "specialist")
             THEN StaffOf(staff_map, "specialist")
             ELSE staff_map[1][2]

\* _check_vendor_history: routing_service.get_vendor_assignee either raises
\* (absorbed, None) or answers vendor_assignments.get(vendor_id).
_check_vendor_history(assignments, vendor_id, raises) ==
    IF raises THEN None
    ELSE IF vendor_id \in DOMAIN assignments THEN assignments[vendor_id]
    ELSE None

\* A load balancer whose alternatives include the default assignee.
alternative_staff_WithDefault(department, default_assignee) ==
    IF department \in DOMAIN department_staff
    THEN { department_staff[department][i][2] :
               i \in 1..Len(department_staff[department]) }
    ELSE {}

\* The staff the load balancer may pick instead of default_assignee.
alternative_staff(department, default_assignee) ==
    IF department \in DOMAIN department_staff
    THEN { department_staff[department][i][2] :
               i \in 1..Len(department_staff[department]) }
         \ { default_assignee }
    ELSE {}

\* _apply_load_balancing: `keep` is random.random() < 0.8, `pick` is the
\* value of random.choice(alternative_staff).
_apply_load_balancing(department, default_assignee, keep, pick) ==
    IF keep THEN default_assignee
    ELSE IF alternative_staff(department, default_assignee) = {}
         THEN default_assignee
         ELSE pick

\* A Router whose vendor-history override applies only to a previous
\* assignee who is on the routed department's staff.
chosen_assignee_InDepartment(inquiry, assignments, raises) ==
    LET department == _determine_department(inquiry)
        by_role == _determine_assignee(inquiry, department)
        previous_assignee ==
            IF inquiry.vendor_id # None
            THEN _check_vendor_history(assignments, inquiry.vendor_id, raises)
            ELSE None
    IN  IF previous_assignee # None
           /\ alternative_staff(department, previous_assignee)
                  # alternative_staff(department, None)
        THEN previous_assignee
        ELSE by_role

\* route_inquiry up to the vendor-history override: the assignee handed to
\* the load balancer.
chosen_assignee(inquiry, assignments, raises) ==
    LET by_role == _determine_assignee(inquiry,
                                       _determine_department(inquiry))
        previous_assignee ==
            IF inquiry.vendor_id # None
            THEN _check_vendor_history(assignments, inquiry.vendor_id, raises)
            ELSE None
    IN  IF previous_assignee # None THEN previous_assignee ELSE by_role

\* route_inquiry: <<record after the Router has run, routing_result>>
route_inquiry(inquiry, assignments, raises, keep, pick) ==
    LET department == _determine_department(inquiry)
        assignee ==
            _apply_load_balancing(
                department, chosen_assignee(inquiry, assignments, raises),
                keep, pick)
    IN  << [ inquiry EXCEPT !.assigned_to = assignee ],
           [ department |-> department, assignee |-> assignee,
             assignment_time |-> inquiry.updated_at ] >>

(***************************************************************************)
(* NotificationAgent: send_inquiry_notifications absorbs every fault of    *)
(* its two senders; `fails` names the sender that raised ("none",          *)
(* "assignment" or "escalation").  `sent` is set only after both ran.      *)
(***************************************************************************)
NotifierFaults == { "none", "assignment", "escalation" }

send_inquiry_notifications(inquiry, fails) ==
    IF fails = "assignment"
    THEN [ sent |-> FALSE, notifications |-> << >> ]
    ELSE IF inquiry.priority = "CRITICAL"
         THEN IF fails = "escalation"
              THEN [ sent |-> FALSE, notifications |-> << "assignment" >> ]
              ELSE [ sent |-> TRUE,
                     notifications |-> << "assignment", "escalation" >> ]
         ELSE [ sent |-> TRUE, notifications |-> << "assignment" >> ]

(***************************************************************************)
(* MonitoringAgent (the Metrics Collector).                                *)
(***************************************************************************)
\* reset_metrics: the three metric dicts with every counter at zero.
reset_metrics ==
    [ system_metrics |->
          [ inquiries_processed |-> 0,
            inquiries_by_category |-> [ c \in InquiryCategory |-> 0 ],
            inquiries_by_priority |-> [ p \in InquiryPriority |-> 0 ],
            error_count |-> 0 ],
      performance_metrics |->
          [ agent_load |-> [ a \in {} |-> 0 ] ],
      queue_metrics |->
          [ inquiries_by_status |-> [ s \in InquiryStatus |-> 0 ] ] ]

\* d[key] += 1 guarded by `key in d`
IncrementIfKey(d, key) ==
    IF key \in DOMAIN d THEN [ d EXCEPT ![key] = @ + 1 ] ELSE d

\* log_activity: append, then keep the last 1000 entries.
LogCapacity == 1000

\* log_activity keeping the first 1000 entries instead of the last.
log_activity_KeepOldest(log, activity_type, inquiry_id) ==
    LET appended == Append(log, [ activity_type |-> activity_type,
                                  inquiry_id |-> inquiry_id ])
    IN  IF Len(appended) > LogCapacity
        THEN SubSeq(appended, 1, LogCapacity)
        ELSE appended

log_activity(log, activity_type, inquiry_id) ==
    LET appended == Append(log, [ activity_type |-> activity_type,
                                  inquiry_id |-> inquiry_id ])
    IN  IF Len(appended) > LogCapacity
        THEN SubSeq(appended, Len(appended) - LogCapacity + 1, Len(appended))
        ELSE appended

\* log_error that drops the entry.
log_error_Dropped(log, error_type, error_message, inquiry_id) == log

\* log_error: the append to error_log; its error_count += 1 is written by
\* the actions that call it.  The list is never cut back.
log_error(log, error_type, error_message, inquiry_id) ==
    Append(log, [ error_type |-> error_type,
                  error_message |-> error_message,
                  inquiry_id |-> inquiry_id ])

\* update_metrics with the category count left out.
update_system_metrics_NoCategory(sm, inquiry) ==
    [ sm EXCEPT
        !.inquiries_processed = @ + 1,
        !.inquiries_by_priority =
            IF inquiry.priority # None
            THEN IncrementIfKey(@, inquiry.priority) ELSE @ ]

\* update_metrics on the system metrics
update_system_metrics(sm, inquiry) ==
    [ sm EXCEPT
        !.inquiries_processed = @ + 1,
        !.inquiries_by_category =
            IF inquiry.category # None
            THEN IncrementIfKey(@, inquiry.category) ELSE @,
        !.inquiries_by_priority =
            IF inquiry.priority # None
            THEN IncrementIfKey(@, inquiry.priority) ELSE @ ]

\* update_metrics counting the inquiry under the status handle_inquiry
\* gives it afterwards.
update_queue_metrics_AsAssigned(qm, inquiry) ==
    [ qm EXCEPT !.inquiries_by_status = IncrementIfKey(@, "ASSIGNED") ]

\* update_metrics on the queue metrics
update_queue_metrics(qm, inquiry) ==
    [ qm EXCEPT
        !.inquiries_by_status =
            IF inquiry.status # None
            THEN IncrementIfKey(@, inquiry.status) ELSE @ ]

\* update_metrics on the performance metrics
update_performance_metrics(pm, inquiry) ==
    [ pm EXCEPT
        !.agent_load =
            IF inquiry.assigned_to # None
               /\ inquiry.assigned_to \in DOMAIN @
            THEN [ @ EXCEPT ![inquiry.assigned_to] = @ + 1 ]
            ELSE [ a \in DOMAIN @ \cup { inquiry.assigned_to } |->
                       IF a = inquiry.assigned_to THEN 1 ELSE @[a] ] ]

(***************************************************************************)
(* PrioritizationService: the vendor records it keeps, by vendor id.  A    *)
(* record is the dict literal of lines 110-117 (158-165, 180-187,          *)
(* 202-209); avg_response_time is an exact rational.                       *)
(***************************************************************************)
\* The dict literal that creates a vendor record.
NewVendorRecord(inquiry_count, last_inquiry_date, relationship_status, contract_value, avg_response_time) ==
    [ inquiry_count |-> inquiry_count,
      last_inquiry_date |-> last_inquiry_date,
      relationship_status |-> relationship_status,
      contract_value |-> contract_value,
      avg_response_time |-> avg_response_time,
      inquiries |-> << >> ]

\* dict.get(key, default)
DictGet(d, key, default) == IF key \in DOMAIN d THEN d[key] ELSE default

get_vendor_data(data, vendor_id) == DictGet(data, vendor_id, None)

update_vendor_stats(data, vendor_id, inquiry_data, instant) ==
    LET vendor == IF vendor_id \in DOMAIN data THEN data[vendor_id]
                  ELSE NewVendorRecord(0, NoTime, "new", 0, Rat(24, 1))
        appended == Append(vendor.inquiries, inquiry_data)
    IN  (vendor_id :>
             [ vendor EXCEPT
                   !.inquiry_count = @ + 1,
                   !.last_inquiry_date = instant,
                   !.inquiries =
                       IF Len(appended) > 100
                       THEN SubSeq(appended, Len(appended) - 99,
                                   Len(appended))
                       ELSE appended ]) @@ data

get_key_vendors(data) ==
    { v \in DOMAIN data : data[v].relationship_status = "key" }

\* set_vendor_relationship that also stores the is_key field.
set_vendor_relationship_WithIsKey(data, vendor_id, relationship) ==
    LET vendor == IF vendor_id \in DOMAIN data THEN data[vendor_id]
                  ELSE NewVendorRecord(0, NoTime, relationship, 0,
                                       Rat(24, 1))
    IN  (vendor_id :>
             (("is_key" :> (relationship = "key"))
              @@ [ vendor EXCEPT !.relationship_status = relationship ]))
        @@ data

set_vendor_relationship(data, vendor_id, relationship) ==
    IF vendor_id \notin DOMAIN data
    THEN (vendor_id :> NewVendorRecord(0, NoTime, relationship, 0,
                                       Rat(24, 1))) @@ data
    ELSE [ data EXCEPT ![vendor_id].relationship_status = relationship ]

set_contract_value(data, vendor_id, value) ==
    IF vendor_id \notin DOMAIN data
    THEN (vendor_id :> NewVendorRecord(0, NoTime, "new", value,
                                       Rat(24, 1))) @@ data
    ELSE [ data EXCEPT ![vendor_id].contract_value = value ]

\* new_avg = (current_avg * count + hours * 2) / (count + 2)
record_response_time(data, vendor_id, hours, instant) ==
    IF vendor_id \notin DOMAIN data
    THEN (vendor_id :> NewVendorRecord(1, instant - hours, "new", 0,
                                       Rat(hours, 1))) @@ data
    ELSE LET current_avg == data[vendor_id].avg_response_time
             count == data[vendor_id].inquiry_count
         IN  [ data EXCEPT
                   ![vendor_id].avg_response_time =
                       Rat(current_avg[1] * count + hours * 2 * current_avg[2],
                           current_avg[2] * (count + 2)) ]

\* What _check_vendor_factors gets from the service: get_vendor_data's
\* answer, read with .get(key, False) for each of the three keys.
VendorDataOf(data, vendor_id) ==
    LET found == get_vendor_data(data, vendor_id)
    IN  IF vendor_id \notin DOMAIN data THEN [ kind |-> "None" ]
        ELSE [ kind |-> "dict",
               is_key |-> DictGet(found, "is_key", FALSE),
               has_active_contract |->
                   DictGet(found, "has_active_contract", FALSE),
               has_history |-> DictGet(found, "has_history", FALSE) ]

(***************************************************************************)
(* State.                                                                  *)
(***************************************************************************)
VARIABLES
    now,                  \* the last reading of datetime.now(), in hours
    inquiries,            \* the Inquiry objects made by process_email, by id
    active_inquiries,     \* AgentManager.active_inquiries (ids it tracks)
    pc,                   \* position of the coordinator in handle_inquiry
    cur,                  \* id of the inquiry handle_inquiry is working on
    routing_result,       \* handle_inquiry's local routing_result
    notification_result,  \* handle_inquiry's local notification_result
    result,               \* the dict the last handle_inquiry returned
    system_metrics,       \* MonitoringAgent.system_metrics
    performance_metrics,  \* MonitoringAgent.performance_metrics
    queue_metrics,        \* MonitoringAgent.queue_metrics
    error_log,            \* MonitoringAgent.error_log
    activity_log,         \* MonitoringAgent.activity_log
    vendor_assignments,   \* RoutingService.vendor_assignments
    calls,                \* number of calls made so far
    stages,               \* history: stages completed by the current call
    entry,                \* history: the collector when the call was entered
    scored_at,            \* history: instant of each inquiry's last scoring
    ladder,               \* the combination ladder applied to chosen inputs
    probe,                \* one agent's operation applied to chosen inputs
    threads,              \* handle_inquiry run by several threads: their positions
    vendor_data           \* PrioritizationService.vendor_data

vars ==
    << now, inquiries, active_inquiries, pc, cur, routing_result,
       notification_result, result, system_metrics, performance_metrics,
       queue_metrics, error_log, activity_log, vendor_assignments, calls,
       stages, entry, scored_at, ladder, probe, threads, vendor_data >>

pipeline_vars ==
    << now, inquiries, active_inquiries, pc, cur, routing_result,
       notification_result, result, system_metrics, performance_metrics,
       queue_metrics, error_log, activity_log, vendor_assignments, calls,
       stages, entry, scored_at, vendor_data >>

NoId == 0
NoResult == [ status |-> "none" ]
NoRouting == [ department |-> None, assignee |-> None,
               assignment_time |-> NoTime ]
NoNotification == [ sent |-> FALSE, notifications |-> << >> ]
NoEntry == [ inquiries_processed |-> 0, error_count |-> 0, errors |-> 0,
             status |-> None ]
NoLadder == [ step |-> "none" ]
NoProbe == [ step |-> "none" ]
NoThreads == << >>

VendorIds == { "V1" }
PreviousAssignees == { "legal.head@example.com" }

\* str(e) of the faults a stage can raise at run time (AttributeError,
\* TypeError, KeyError, ...): CPython gives each of them a message.
FaultMessages == { "'NoneType' object has no attribute 'lower'" }

\* The emails that arrive: subject and text from the vocabulary, with or
\* without a reply-thread reference, from a known vendor or not.
Email(subject, text, in_reply_to, vendor_id) ==
    [ subject |-> subject, text |-> text, in_reply_to |-> in_reply_to,
      vendor_id |-> vendor_id ]

Emails ==
    { Email("URGENT invoice payment overdue", "hello there", None, "V1"),
      Email("Inquiry", "hello there", None, None),
      Email("Inquiry", "following up on the guide", "<msg-0>", None),
      Email("Inquiry", "portal login error", None, "V1"),
      Email("No rush", "important contract renewal terms", None, None),
      Email("Inquiry", "Not urgent", None, "V1"),
      Email("No rush", "application status", "<msg-0>", "V1"),
      Email("Inquiry", "question about an invoice", None, None) }

\* EmailProcessor.process_email: the Inquiry built from an email.
process_email(id, subject, content, in_reply_to, vendor_id, instant) ==
    [ id |-> id,
      vendor_id |-> vendor_id,
      subject |-> subject,
      raw_content |-> content,
      in_reply_to |-> in_reply_to,
      category |-> "OTHER",
      inquiry_type |-> None,
      priority |-> None,
      status |-> "NEW",
      confidence_score |-> Rat(0, 1),
      assigned_to |-> None,
      created_at |-> instant,
      updated_at |-> instant,
      due_by |-> NoTime ]

PipelineInit ==
    /\ now = 0
    /\ inquiries = [ i \in {} |-> 0 ]
    /\ active_inquiries = {}
    /\ pc = "idle"
    /\ cur = NoId
    /\ routing_result = NoRouting
    /\ notification_result = NoNotification
    /\ result = NoResult
    /\ system_metrics = reset_metrics.system_metrics
    /\ performance_metrics = reset_metrics.performance_metrics
    /\ queue_metrics = reset_metrics.queue_metrics
    /\ error_log = << >>
    /\ activity_log = << >>
    /\ vendor_assignments = [ v \in {} |-> None ]
    /\ calls = 0
    /\ stages = << >>
    /\ entry = NoEntry
    /\ scored_at = [ i \in {} |-> 0 ]
    /\ vendor_data = [ v \in {} |-> None ]

Init ==
    /\ PipelineInit
    /\ ladder = NoLadder
    /\ threads = NoThreads
    /\ probe = NoProbe

\* datetime.now(): a reading not earlier than the previous one.
Clock == now..MaxTime

(***************************************************************************)
(* The collaborators' own operations.                                      *)
(***************************************************************************)
\* routing_service.update_vendor_assignment(vendor_id, assignee)
UpdateVendorAssignment ==
    /\ pc = "idle"
    /\ \E v \in VendorIds, a \in PreviousAssignees :
          vendor_assignments' = (v :> a) @@ vendor_assignments
    /\ UNCHANGED << now, inquiries, active_inquiries, pc, cur, routing_result,
                    notification_result, result, system_metrics,
                    performance_metrics, queue_metrics, error_log,
                    activity_log, calls, stages, entry, scored_at, ladder,
                    probe, threads, vendor_data >>

\* monitoring_agent.reset_metrics()
ResetMetrics ==
    /\ pc = "idle"
    /\ system_metrics' = reset_metrics.system_metrics
    /\ performance_metrics' = reset_metrics.performance_metrics
    /\ queue_metrics' = reset_metrics.queue_metrics
    /\ UNCHANGED << now, inquiries, active_inquiries, pc, cur, routing_result,
                    notification_result, result, error_log, activity_log,
                    vendor_assignments, calls, stages, entry, scored_at,
                    ladder, probe, threads, vendor_data >>

(***************************************************************************)
(* AgentManager.handle_inquiry: its callers, one action per step of its    *)
(* try block and one for its except block.                                 *)
(***************************************************************************)
\* Entry of handle_inquiry(inquiry): track the inquiry, log
\* "inquiry_received", and start on the Classifier.
EnterHandleInquiry(id, inquiry) ==
    /\ cur' = id
    /\ active_inquiries' = active_inquiries \cup { id }
    /\ activity_log' = log_activity(activity_log, "inquiry_received", id)
    /\ entry' = [ inquiries_processed |-> system_metrics.inquiries_processed,
                  error_count |-> system_metrics.error_count,
                  errors |-> Len(error_log),
                  status |-> inquiry.status ]
    /\ calls' = calls + 1
    /\ pc' = "analysis"
    /\ stages' = << >>
    /\ result' = NoResult

\* api.py process_email_inquiry (demo.py and tasks.py alike): build the
\* Inquiry from the email, then hand it to handle_inquiry.
ProcessEmailInquiry ==
    /\ pc = "idle"
    /\ calls < MaxCalls
    /\ Cardinality(DOMAIN inquiries) < MaxInquiries
    /\ \E email \in Emails, instant \in Clock :
          LET id == Cardinality(DOMAIN inquiries) + 1
              inquiry == process_email(id, email.subject, email.text,
                                       email.in_reply_to, email.vendor_id,
                                       instant)
          IN  /\ inquiries' = (id :> inquiry) @@ inquiries
              /\ now' = instant
              /\ EnterHandleInquiry(id, inquiry)
    /\ UNCHANGED << routing_result, notification_result, system_metrics,
                    performance_metrics, queue_metrics, error_log,
                    vendor_assignments, scored_at, ladder, probe, threads,
                    vendor_data >>

\* A caller hands an inquiry it already holds to handle_inquiry again.
HandleInquiry ==
    /\ pc = "idle"
    /\ calls < MaxCalls
    /\ \E id \in DOMAIN inquiries : EnterHandleInquiry(id, inquiries[id])
    /\ UNCHANGED << now, inquiries, routing_result, notification_result,
                    system_metrics, performance_metrics, queue_metrics,
                    error_log, vendor_assignments, scored_at, ladder, probe,
                    threads, vendor_data >>

\* 1. inquiry = self.analysis_agent.analyze_inquiry(inquiry)
Analyze ==
    /\ pc = "analysis"
    /\ inquiries' = [ inquiries EXCEPT ![cur] = analyze_inquiry(@) ]
    /\ stages' = Append(stages, "analysis")
    /\ pc' = "prioritization"
    /\ UNCHANGED << now, active_inquiries, cur, routing_result,
                    notification_result, result, system_metrics,
                    performance_metrics, queue_metrics, error_log,
                    activity_log, vendor_assignments, calls, entry,
                    scored_at, ladder, probe, threads, vendor_data >>

\* 2. inquiry = self.prioritization_agent.prioritize_inquiry(inquiry)
Prioritize ==
    /\ pc = "prioritization"
    /\ \E response \in VendorDataResponses, instant \in Clock :
          /\ inquiries' =
                 [ inquiries EXCEPT
                       ![cur] = prioritize_inquiry(@, response, instant) ]
          /\ scored_at' = (cur :> instant) @@ scored_at
          /\ now' = instant
    /\ stages' = Append(stages, "prioritization")
    /\ pc' = "routing"
    /\ UNCHANGED << active_inquiries, cur, routing_result,
                    notification_result, result, system_metrics,
                    performance_metrics, queue_metrics, error_log,
                    activity_log, vendor_assignments, calls, entry, ladder,
                    probe, threads, vendor_data >>

\* 3. inquiry, routing_result = self.routing_agent.route_inquiry(inquiry)
Route ==
    /\ pc = "routing"
    /\ \E raises \in BOOLEAN, keep \in BOOLEAN :
          LET inquiry == inquiries[cur]
              chosen == chosen_assignee(inquiry, vendor_assignments, raises)
              alternatives ==
                  alternative_staff(_determine_department(inquiry), chosen)
          IN  \E pick \in IF keep \/ alternatives = {} THEN { chosen }
                          ELSE alternatives :
                  LET routed == route_inquiry(inquiry, vendor_assignments,
                                              raises, keep, pick)
                  IN  /\ inquiries' = [ inquiries EXCEPT ![cur] = routed[1] ]
                      /\ routing_result' = routed[2]
    /\ stages' = Append(stages, "routing")
    /\ pc' = "notification"
    /\ UNCHANGED << now, active_inquiries, cur, notification_result, result,
                    system_metrics, performance_metrics, queue_metrics,
                    error_log, activity_log, vendor_assignments, calls, entry,
                    scored_at, ladder, probe, threads, vendor_data >>

\* Step 4 with a sender's fault reaching handle_inquiry's except block.
Notify_Propagates ==
    /\ pc = "notification"
    /\ \E fails \in NotifierFaults :
          /\ fails = "escalation" => inquiries[cur].priority = "CRITICAL"
          /\ IF fails = "none"
             THEN /\ notification_result' =
                         send_inquiry_notifications(inquiries[cur], fails)
                  /\ stages' = Append(stages, "notification")
                  /\ pc' = "metrics"
                  /\ UNCHANGED << result, system_metrics, error_log >>
             ELSE /\ error_log' = log_error(error_log, "inquiry_processing",
                                            "notification failed", cur)
                  /\ system_metrics' =
                         [ system_metrics EXCEPT !.error_count = @ + 1 ]
                  /\ result' = [ inquiry_id |-> cur,
                                 status |-> "error",
                                 error_message |-> "notification failed" ]
                  /\ pc' = "idle"
                  /\ UNCHANGED << notification_result, stages >>
    /\ UNCHANGED << now, inquiries, active_inquiries, cur, routing_result,
                    performance_metrics, queue_metrics, activity_log,
                    vendor_assignments, calls, entry, scored_at, ladder,
                    probe, threads, vendor_data >>

\* 4. notification_result = self.notification_agent
\*        .send_inquiry_notifications(inquiry, routing_result)
Notify ==
    /\ pc = "notification"
    /\ \E fails \in NotifierFaults :
          /\ fails = "escalation" => inquiries[cur].priority = "CRITICAL"
          /\ notification_result' =
                 send_inquiry_notifications(inquiries[cur], fails)
    /\ stages' = Append(stages, "notification")
    /\ pc' = "metrics"
    /\ UNCHANGED << now, inquiries, active_inquiries, cur, routing_result,
                    result, system_metrics, performance_metrics,
                    queue_metrics, error_log, activity_log,
                    vendor_assignments, calls, entry, scored_at, ladder,
                    probe, threads, vendor_data >>

\* self.monitoring_agent.update_metrics(inquiry)
UpdateMetrics ==
    /\ pc = "metrics"
    /\ system_metrics' = update_system_metrics(system_metrics, inquiries[cur])
    /\ queue_metrics' = update_queue_metrics(queue_metrics, inquiries[cur])
    /\ performance_metrics' =
           update_performance_metrics(performance_metrics, inquiries[cur])
    /\ activity_log' =
           log_activity(activity_log, "inquiry_processed", cur)
    /\ stages' = Append(stages, "metrics")
    /\ pc' = "finish"
    /\ UNCHANGED << now, inquiries, active_inquiries, cur, routing_result,
                    notification_result, result, error_log,
                    vendor_assignments, calls, entry, scored_at, ladder,
                    probe, threads, vendor_data >>

\* The return of handle_inquiry without the status update.
Finish_NoStatus ==
    /\ pc = "finish"
    /\ active_inquiries' = active_inquiries \cup { cur }
    /\ result' = [ inquiry_id |-> cur,
                   status |-> "success",
                   category |-> inquiries[cur].category,
                   priority |-> inquiries[cur].priority,
                   assigned_to |-> inquiries[cur].assigned_to,
                   notifications_sent |-> notification_result.sent ]
    /\ pc' = "idle"
    /\ routing_result' = NoRouting
    /\ notification_result' = NoNotification
    /\ UNCHANGED << now, inquiries, cur, system_metrics, performance_metrics,
                    queue_metrics, error_log, activity_log,
                    vendor_assignments, calls, stages, entry, scored_at,
                    ladder, probe, threads, vendor_data >>

\* inquiry.status = InquiryStatus.ASSIGNED; return the success dict.
Finish ==
    /\ pc = "finish"
    /\ inquiries' = [ inquiries EXCEPT ![cur].status = "ASSIGNED" ]
    /\ active_inquiries' = active_inquiries \cup { cur }
    /\ result' = [ inquiry_id |-> cur,
                   status |-> "success",
                   category |-> inquiries[cur].category,
                   priority |-> inquiries[cur].priority,
                   assigned_to |-> inquiries[cur].assigned_to,
                   notifications_sent |-> notification_result.sent ]
    /\ pc' = "idle"
    /\ routing_result' = NoRouting
    /\ notification_result' = NoNotification
    /\ UNCHANGED << now, cur, system_metrics, performance_metrics, queue_metrics,
                    error_log, activity_log, vendor_assignments, calls,
                    stages, entry, scored_at, ladder, probe, threads,
                    vendor_data >>

\* except Exception as e: a fault raised by the Classifier, the Priority
\* Engine or the Router is logged and turned into the error dict.  The
\* Priority Engine and the Router write the record in their last statements;
\* analyze_inquiry writes it (lines 123-126) before its last two extraction
\* steps (127-132), so its fault finds the record untouched or already
\* written.
StageFault ==
    /\ pc \in { "analysis", "prioritization", "routing" }
    /\ \/ inquiries' = inquiries
       \/ /\ pc = "analysis"
          /\ inquiries' = [ inquiries EXCEPT ![cur] = analyze_inquiry(@) ]
    /\ \E message \in FaultMessages :
          /\ error_log' = log_error(error_log, "inquiry_processing", message,
                                    cur)
          /\ result' = [ inquiry_id |-> cur,
                         status |-> "error",
                         error_message |-> message ]
    /\ system_metrics' = [ system_metrics EXCEPT !.error_count = @ + 1 ]
    /\ pc' = "idle"
    /\ routing_result' = NoRouting
    /\ notification_result' = NoNotification
    /\ UNCHANGED << now, active_inquiries, cur,
                    performance_metrics, queue_metrics,
                    activity_log, vendor_assignments, calls, stages, entry,
                    scored_at, ladder, probe, threads, vendor_data >>

Next ==
    \/ ProcessEmailInquiry
    \/ UpdateVendorAssignment
    \/ ResetMetrics
    \/ HandleInquiry
    \/ Analyze
    \/ Prioritize
    \/ Route
    \/ Notify
    \/ UpdateMetrics
    \/ Finish
    \/ StageFault

Spec == Init /\ [][Next]_vars

(***************************************************************************)
(* The combination ladder on its own: _determine_final_priority applied    *)
(* to every combination of its five arguments.                             *)
(***************************************************************************)
KeywordPriorities == InquiryPriority \cup { None }

TimeFactors ==
    [ has_deadline : BOOLEAN, deadline_soon : BOOLEAN,
      mentions_delay : BOOLEAN ]

VendorFactors ==
    { [ NoVendorFactors EXCEPT !.is_key_vendor = k ] : k \in BOOLEAN }

InitLadder ==
    /\ PipelineInit
    /\ probe = NoProbe
    /\ threads = NoThreads
    /\ \E b \in InquiryPriority, k \in KeywordPriorities, f \in BOOLEAN,
          t \in TimeFactors, v \in VendorFactors :
          ladder = [ step |-> "input", base_priority |-> b,
                     keyword_priority |-> k, is_followup |-> f,
                     time_factors |-> t, vendor_factors |-> v ]

\* One call of _determine_final_priority, keeping the value of `priority`
\* after each of its five blocks.
DetermineFinalPriority ==
    /\ ladder.step = "input"
    /\ LET p4a == Step4a(ladder.base_priority, ladder.keyword_priority)
           p4b == Step4b(p4a, ladder.is_followup)
           p4c == Step4c(p4b, ladder.time_factors)
           p4d == Step4d(p4c, ladder.time_factors)
           p4e == Step4e(p4d, ladder.vendor_factors)
       IN  ladder' =
               [ step |-> "done",
                 base_priority |-> ladder.base_priority,
                 keyword_priority |-> ladder.keyword_priority,
                 is_followup |-> ladder.is_followup,
                 time_factors |-> ladder.time_factors,
                 vendor_factors |-> ladder.vendor_factors,
                 after |-> << p4a, p4b, p4c, p4d, p4e >>,
                 final |-> _determine_final_priority(
                               ladder.base_priority, ladder.keyword_priority,
                               ladder.is_followup, ladder.time_factors,
                               ladder.vendor_factors) ]
    /\ UNCHANGED << pipeline_vars, probe, threads >>

NextLadder == DetermineFinalPriority

SpecLadder == InitLadder /\ [][NextLadder]_vars

(***************************************************************************)
(* The error log on its own: monitoring_agent.log_error called again and   *)
(* again.                                                                  *)
(***************************************************************************)
LogError ==
    /\ pc = "idle"
    /\ system_metrics.error_count < MaxErrorCalls
    /\ error_log' = log_error(error_log, "inquiry_processing",
                              "'NoneType' object has no attribute 'lower'",
                              system_metrics.error_count + 1)
    /\ system_metrics' = [ system_metrics EXCEPT !.error_count = @ + 1 ]
    /\ UNCHANGED << now, inquiries, active_inquiries, pc, cur, routing_result,
                    notification_result, result, performance_metrics,
                    queue_metrics, activity_log, vendor_assignments, calls,
                    stages, entry, scored_at, ladder, probe, threads,
                    vendor_data >>

NextErrorLog == LogError

SpecErrorLog == Init /\ [][NextErrorLog]_vars

(***************************************************************************)
(* The Router on its own: route_inquiry applied to an inquiry of every     *)
(* type, category and priority, with and without a vendor and a recorded   *)
(* vendor assignment.                                                      *)
(***************************************************************************)
VendorAssignments ==
    { [ v \in {} |-> None ] }
    \cup { (v :> a) : v \in VendorIds, a \in PreviousAssignees }

InitRouter ==
    /\ PipelineInit
    /\ ladder = NoLadder
    /\ threads = NoThreads
    /\ \E t \in InquiryType \cup { None }, c \in InquiryCategory,
          p \in InquiryPriority \cup { None }, v \in VendorIds \cup { None },
          a \in VendorAssignments :
          probe = [ step |-> "input",
                    inquiry |->
                        [ process_email(1, "Inquiry", "hello there", None, v,
                                        0)
                              EXCEPT !.inquiry_type = t, !.category = c,
                                     !.priority = p ],
                    assignments |-> a ]

\* One call of route_inquiry; the outcome of the vendor-history lookup and
\* of the two random draws is kept beside the result.
RouteInquiry ==
    /\ probe.step = "input"
    /\ \E raises \in BOOLEAN, keep \in BOOLEAN :
          LET chosen == chosen_assignee(probe.inquiry, probe.assignments,
                                        raises)
              alternatives ==
                  alternative_staff(_determine_department(probe.inquiry),
                                    chosen)
          IN  \E pick \in IF keep \/ alternatives = {} THEN { chosen }
                          ELSE alternatives :
                  LET routed == route_inquiry(probe.inquiry,
                                              probe.assignments, raises, keep,
                                              pick)
                  IN  probe' = [ step |-> "done",
                                 given |-> probe.inquiry,
                                 assignments |-> probe.assignments,
                                 raises |-> raises,
                                 keep |-> keep,
                                 inquiry |-> routed[1],
                                 routing_result |-> routed[2] ]
    /\ UNCHANGED << pipeline_vars, ladder, threads >>

NextRouter == RouteInquiry

SpecRouter == InitRouter /\ [][NextRouter]_vars

(***************************************************************************)
(* The load balancer on its own: _apply_load_balancing applied to every    *)
(* department (one of them absent from department_staff) and every         *)
(* assignee the Router can hand to it.                                     *)
(***************************************************************************)
Departments == DOMAIN department_staff \cup { "Unlisted Department" }

Staff ==
    UNION { { department_staff[d][i][2] : i \in 1..Len(department_staff[d]) } :
                d \in DOMAIN department_staff }

InitBalancer ==
    /\ PipelineInit
    /\ ladder = NoLadder
    /\ threads = NoThreads
    /\ \E department \in Departments, default_assignee \in Staff :
          probe = [ step |-> "arguments",
                    department |-> department,
                    default_assignee |-> default_assignee ]

\* One call of _apply_load_balancing; the two random draws are kept beside
\* the result.
ApplyLoadBalancing ==
    /\ probe.step = "arguments"
    /\ \E keep \in BOOLEAN :
          LET alternatives ==
                  alternative_staff(probe.department, probe.default_assignee)
          IN  \E pick \in IF keep \/ alternatives = {}
                          THEN { probe.default_assignee }
                          ELSE alternatives :
                  probe' = [ step |-> "balanced",
                             department |-> probe.department,
                             default_assignee |-> probe.default_assignee,
                             keep |-> keep,
                             assignee |->
                                 _apply_load_balancing(
                                     probe.department, probe.default_assignee,
                                     keep, pick) ]
    /\ UNCHANGED << pipeline_vars, ladder, threads >>

NextBalancer == ApplyLoadBalancing

SpecBalancer == InitBalancer /\ [][NextBalancer]_vars

(***************************************************************************)
(* The Classifier and the Priority Engine on their own: analyze_inquiry    *)
(* and then prioritize_inquiry applied to the inquiry made from every      *)
(* email of the vocabulary.                                                *)
(***************************************************************************)
InitAgents ==
    /\ PipelineInit
    /\ ladder = NoLadder
    /\ threads = NoThreads
    /\ \E subject \in Subjects, text \in Bodies,
          in_reply_to \in { None, "<msg-0>" }, v \in VendorIds \cup { None } :
          probe = [ step |-> "new",
                    inquiry |-> process_email(1, subject, text, in_reply_to,
                                              v, 0) ]

\* One call of analyze_inquiry, keeping the two per-axis confidences.
AnalyzeInquiry ==
    /\ probe.step = "new"
    /\ LET hits == TextKeywords(probe.inquiry.subject,
                                probe.inquiry.raw_content)
       IN  probe' = [ step |-> "categorized",
                      inquiry |-> analyze_inquiry(probe.inquiry),
                      category_confidence |-> _categorize_inquiry(hits)[2],
                      type_confidence |-> _determine_inquiry_type(hits)[2] ]
    /\ UNCHANGED << pipeline_vars, ladder, threads >>

\* One call of prioritize_inquiry, keeping what the vendor lookup answered.
PrioritizeInquiry ==
    /\ probe.step = "categorized"
    /\ \E response \in VendorDataResponses, instant \in 0..MaxTime :
          probe' = [ step |-> "prioritized",
                     given |-> probe.inquiry,
                     response |-> response,
                     instant |-> instant,
                     inquiry |-> prioritize_inquiry(probe.inquiry, response,
                                                    instant) ]
    /\ UNCHANGED << pipeline_vars, ladder, threads >>

NextAgents == AnalyzeInquiry \/ PrioritizeInquiry

SpecAgents == InitAgents /\ [][NextAgents]_vars

(***************************************************************************)
(* The activity log on its own: monitoring_agent.log_activity called again *)
(* and again, the n-th call carrying n in its details.                     *)
(***************************************************************************)
LogActivity ==
    /\ pc = "idle"
    /\ calls < MaxActivityCalls
    /\ activity_log' = log_activity(activity_log, "inquiry_received",
                                    calls + 1)
    /\ calls' = calls + 1
    /\ UNCHANGED << now, inquiries, active_inquiries, pc, cur, routing_result,
                    notification_result, result, system_metrics,
                    performance_metrics, queue_metrics, error_log,
                    vendor_assignments, stages, entry, scored_at, ladder,
                    probe, threads, vendor_data >>

NextActivityLog == LogActivity

SpecActivityLog == Init /\ [][NextActivityLog]_vars

(***************************************************************************)
(* handle_inquiry called from several threads on one AgentManager, each    *)
(* thread with an inquiry of its own.  Neither AgentManager nor            *)
(* MonitoringAgent holds a lock, so the threads' statements interleave;    *)
(* `d[key] += 1` is a read of d[key] followed by a write of d[key].  The   *)
(* four stages work on the thread's own inquiry and are one step.          *)
(***************************************************************************)
ThreadIds == 1..MaxThreads

\* The counters update_metrics increments, in its order, and the one
\* log_error increments.
MetricsCounters ==
    << "inquiries_processed", "inquiries_by_category",
       "inquiries_by_priority", "inquiries_by_status", "agent_load" >>

ErrorCounters == << "error_count" >>

\* The right-hand side's read of d[key] in `d[key] += 1`; for agent_load,
\* the `in` test that chooses between `+= 1` and `= 1`.
ReadCounter(name, inquiry) ==
    CASE name = "inquiries_processed" -> system_metrics.inquiries_processed
      [] name = "inquiries_by_category" ->
             system_metrics.inquiries_by_category[inquiry.category]
      [] name = "inquiries_by_priority" ->
             system_metrics.inquiries_by_priority[inquiry.priority]
      [] name = "inquiries_by_status" ->
             queue_metrics.inquiries_by_status[inquiry.status]
      [] name = "agent_load" ->
             IF inquiry.assigned_to \in DOMAIN performance_metrics.agent_load
             THEN performance_metrics.agent_load[inquiry.assigned_to]
             ELSE 0
      [] name = "error_count" -> system_metrics.error_count

\* The write of d[key] in `d[key] += 1`, on each of the three dicts.
WriteSystemMetrics(name, inquiry, value) ==
    CASE name = "inquiries_processed" ->
             [ system_metrics EXCEPT !.inquiries_processed = value ]
      [] name = "inquiries_by_category" ->
             [ system_metrics EXCEPT
                   !.inquiries_by_category[inquiry.category] = value ]
      [] name = "inquiries_by_priority" ->
             [ system_metrics EXCEPT
                   !.inquiries_by_priority[inquiry.priority] = value ]
      [] name = "error_count" ->
             [ system_metrics EXCEPT !.error_count = value ]
      [] OTHER -> system_metrics

WriteQueueMetrics(name, inquiry, value) ==
    IF name = "inquiries_by_status"
    THEN [ queue_metrics EXCEPT
               !.inquiries_by_status[inquiry.status] = value ]
    ELSE queue_metrics

WritePerformanceMetrics(name, inquiry, value) ==
    IF name = "agent_load"
    THEN [ performance_metrics EXCEPT
               !.agent_load = (inquiry.assigned_to :> value) @@ @ ]
    ELSE performance_metrics

\* The emails the threads' inquiries are made from (no vendor, no reply
\* thread), and what the vendor service answers while the threads run.
ThreadEmails == { e \in Emails : e.vendor_id = None /\ e.in_reply_to = None }

ThreadResponses == { r \in VendorDataResponses : r.kind = "None" }

\* A thread before its call.
NewThread == [ pc |-> "start", todo |-> << >>, loaded |-> 0, status |-> "none" ]

InitThreads ==
    /\ now = 0
    /\ \E emails \in [ ThreadIds -> ThreadEmails ] :
          inquiries =
              [ t \in ThreadIds |->
                    process_email(t, emails[t].subject, emails[t].text,
                                  emails[t].in_reply_to, emails[t].vendor_id,
                                  0) ]
    /\ active_inquiries = {}
    /\ pc = "idle"
    /\ cur = NoId
    /\ routing_result = NoRouting
    /\ notification_result = NoNotification
    /\ result = NoResult
    /\ system_metrics = reset_metrics.system_metrics
    /\ performance_metrics = reset_metrics.performance_metrics
    /\ queue_metrics = reset_metrics.queue_metrics
    /\ error_log = << >>
    /\ activity_log = << >>
    /\ vendor_assignments = [ v \in {} |-> None ]
    /\ calls = 0
    /\ stages = << >>
    /\ entry = NoEntry
    /\ scored_at = [ i \in {} |-> 0 ]
    /\ vendor_data = [ v \in {} |-> None ]
    /\ ladder = NoLadder
    /\ probe = NoProbe
    /\ threads = [ t \in ThreadIds |-> NewThread ]

\* self.active_inquiries[inquiry.id] = inquiry; log_activity(...)
ThreadEnter(t) ==
    /\ threads[t].pc = "start"
    /\ active_inquiries' = active_inquiries \cup { t }
    /\ activity_log' = log_activity(activity_log, "inquiry_received", t)
    /\ threads' = [ threads EXCEPT ![t].pc = "stages" ]
    /\ UNCHANGED << now, inquiries, pc, cur, routing_result,
                    notification_result, result, system_metrics,
                    performance_metrics, queue_metrics, error_log,
                    vendor_assignments, calls, stages, entry, scored_at,
                    ladder, probe, vendor_data >>

\* Steps 1 to 4 of handle_inquiry on the thread's inquiry; the Notifier's
\* outcome changes nothing the threads share.  The threads run within one
\* reading of the clock, and the vendor history is empty, so that a fault
\* of its lookup changes nothing.
ThreadStages(t) ==
    /\ threads[t].pc = "stages"
    /\ \E response \in ThreadResponses, instant \in { now },
          raises \in { FALSE }, keep \in BOOLEAN :
          LET scored == prioritize_inquiry(analyze_inquiry(inquiries[t]),
                                           response, instant)
              chosen == chosen_assignee(scored, vendor_assignments, raises)
              alternatives ==
                  alternative_staff(_determine_department(scored), chosen)
          IN  \E pick \in IF keep \/ alternatives = {} THEN { chosen }
                          ELSE alternatives :
                  /\ inquiries' =
                         [ inquiries EXCEPT
                               ![t] = route_inquiry(scored,
                                                    vendor_assignments,
                                                    raises, keep, pick)[1] ]
                  /\ now' = instant
    /\ threads' = [ threads EXCEPT ![t].pc = "load",
                                   ![t].todo = MetricsCounters ]
    /\ UNCHANGED << active_inquiries, pc, cur, routing_result,
                    notification_result, result, system_metrics,
                    performance_metrics, queue_metrics, error_log,
                    activity_log, vendor_assignments, calls, stages, entry,
                    scored_at, ladder, probe, vendor_data >>

\* A stage raises: handle_inquiry's except block calls log_error, which
\* appends to error_log and then increments error_count.
ThreadFault(t) ==
    /\ threads[t].pc = "stages"
    /\ \E message \in FaultMessages :
          error_log' = log_error(error_log, "inquiry_processing", message, t)
    /\ threads' = [ threads EXCEPT ![t].pc = "load",
                                   ![t].todo = ErrorCounters ]
    /\ UNCHANGED << now, inquiries, active_inquiries, pc, cur, routing_result,
                    notification_result, result, system_metrics,
                    performance_metrics, queue_metrics, activity_log,
                    vendor_assignments, calls, stages, entry, scored_at,
                    ladder, probe, vendor_data >>

\* `d[key] += 1`, first half: the thread reads the counter.
ThreadLoad(t) ==
    /\ threads[t].pc = "load"
    /\ threads' =
           [ threads EXCEPT
                 ![t].pc = "store",
                 ![t].loaded = ReadCounter(threads[t].todo[1], inquiries[t]) ]
    /\ UNCHANGED << pipeline_vars, ladder, probe >>

\* `d[key] += 1`, second half: the thread writes what it read, plus one.
\* After update_metrics' last counter comes its log_activity call; after
\* log_error's counter handle_inquiry returns the error dict.
ThreadStore(t) ==
    /\ threads[t].pc = "store"
    /\ LET name == threads[t].todo[1]
           value == threads[t].loaded + 1
           rest == Tail(threads[t].todo)
       IN  /\ system_metrics' =
                  WriteSystemMetrics(name, inquiries[t], value)
           /\ queue_metrics' = WriteQueueMetrics(name, inquiries[t], value)
           /\ performance_metrics' =
                  WritePerformanceMetrics(name, inquiries[t], value)
           /\ threads' =
                  [ threads EXCEPT
                        ![t].todo = rest,
                        ![t].loaded = 0,
                        ![t].pc = IF rest # << >> THEN "load"
                                  ELSE IF name = "error_count" THEN "done"
                                  ELSE "log",
                        ![t].status = IF name = "error_count" THEN "error"
                                      ELSE @ ]
    /\ UNCHANGED << now, inquiries, active_inquiries, pc, cur, routing_result,
                    notification_result, result, error_log, activity_log,
                    vendor_assignments, calls, stages, entry, scored_at,
                    ladder, probe, vendor_data >>

\* update_metrics' closing self.log_activity("inquiry_processed", ...)
ThreadLog(t) ==
    /\ threads[t].pc = "log"
    /\ activity_log' = log_activity(activity_log, "inquiry_processed", t)
    /\ threads' = [ threads EXCEPT ![t].pc = "finish" ]
    /\ UNCHANGED << now, inquiries, active_inquiries, pc, cur, routing_result,
                    notification_result, result, system_metrics,
                    performance_metrics, queue_metrics, error_log,
                    vendor_assignments, calls, stages, entry, scored_at,
                    ladder, probe, vendor_data >>

\* inquiry.status = ASSIGNED; self.active_inquiries[inquiry.id] = inquiry;
\* return the success dict.
ThreadFinish(t) ==
    /\ threads[t].pc = "finish"
    /\ inquiries' = [ inquiries EXCEPT ![t].status = "ASSIGNED" ]
    /\ active_inquiries' = active_inquiries \cup { t }
    /\ threads' = [ threads EXCEPT ![t].pc = "done",
                                   ![t].status = "success" ]
    /\ UNCHANGED << now, pc, cur, routing_result, notification_result, result,
                    system_metrics, performance_metrics, queue_metrics,
                    error_log, activity_log, vendor_assignments, calls,
                    stages, entry, scored_at, ladder, probe, vendor_data >>

NextThreads ==
    \E t \in ThreadIds :
        \/ ThreadEnter(t)
        \/ ThreadStages(t)
        \/ ThreadFault(t)
        \/ ThreadLoad(t)
        \/ ThreadStore(t)
        \/ ThreadLog(t)
        \/ ThreadFinish(t)

SpecThreads == InitThreads /\ [][NextThreads]_vars

(***************************************************************************)
(* The Priority Engine with the repository's PrioritizationService as its  *)
(* vendor service: any of the service's operations on a vendor, then       *)
(* prioritize_inquiry on an inquiry of the vendor.                         *)
(***************************************************************************)
Relationships == { "key", "preferred", "standard" }

ContractValues == { 0, 250000 }

ResponseHours == { 12, 48 }

InquiryData == { [ type |-> "GENERAL", priority |-> "LOW", category |-> "OTHER" ] }

UpdateVendorStats ==
    /\ probe = NoProbe
    /\ calls < MaxServiceCalls
    /\ \E v \in VendorIds, inquiry_data \in InquiryData, instant \in Clock :
          /\ vendor_data' =
                 update_vendor_stats(vendor_data, v, inquiry_data, instant)
          /\ now' = instant
    /\ calls' = calls + 1
    /\ UNCHANGED << inquiries, active_inquiries, pc, cur, routing_result,
                    notification_result, result, system_metrics,
                    performance_metrics, queue_metrics, error_log,
                    activity_log, vendor_assignments, stages, entry,
                    scored_at, ladder, probe, threads >>

SetVendorRelationship ==
    /\ probe = NoProbe
    /\ calls < MaxServiceCalls
    /\ \E v \in VendorIds, relationship \in Relationships :
          vendor_data' = set_vendor_relationship(vendor_data, v, relationship)
    /\ calls' = calls + 1
    /\ UNCHANGED << now, inquiries, active_inquiries, pc, cur, routing_result,
                    notification_result, result, system_metrics,
                    performance_metrics, queue_metrics, error_log,
                    activity_log, vendor_assignments, stages, entry,
                    scored_at, ladder, probe, threads >>

SetContractValue ==
    /\ probe = NoProbe
    /\ calls < MaxServiceCalls
    /\ \E v \in VendorIds, value \in ContractValues :
          vendor_data' = set_contract_value(vendor_data, v, value)
    /\ calls' = calls + 1
    /\ UNCHANGED << now, inquiries, active_inquiries, pc, cur, routing_result,
                    notification_result, result, system_metrics,
                    performance_metrics, queue_metrics, error_log,
                    activity_log, vendor_assignments, stages, entry,
                    scored_at, ladder, probe, threads >>

RecordResponseTime ==
    /\ probe = NoProbe
    /\ calls < MaxServiceCalls
    /\ \E v \in VendorIds, hours \in ResponseHours, instant \in Clock :
          /\ vendor_data' =
                 record_response_time(vendor_data, v, hours, instant)
          /\ now' = instant
    /\ calls' = calls + 1
    /\ UNCHANGED << inquiries, active_inquiries, pc, cur, routing_result,
                    notification_result, result, system_metrics,
                    performance_metrics, queue_metrics, error_log,
                    activity_log, vendor_assignments, stages, entry,
                    scored_at, ladder, probe, threads >>

\* analyze_inquiry and prioritize_inquiry on an inquiry of a vendor, with
\* the service in its present state; beside the result, the same inquiry
\* scored as if the service did not know the vendor.
PrioritizeWithService ==
    /\ probe = NoProbe
    /\ \E email \in { e \in Emails : e.vendor_id # None } :
          LET inquiry ==
                  analyze_inquiry(
                      process_email(1, email.subject, email.text,
                                    email.in_reply_to, email.vendor_id, now))
              response == VendorDataOf(vendor_data, inquiry.vendor_id)
          IN  probe' =
                  [ step |-> "scored",
                    key_vendors |-> get_key_vendors(vendor_data),
                    vendor_factors |->
                        _check_vendor_factors(inquiry, response),
                    inquiry |-> prioritize_inquiry(inquiry, response, now),
                    unknown |->
                        prioritize_inquiry(inquiry, [ kind |-> "None" ],
                                           now) ]
    /\ UNCHANGED << pipeline_vars, ladder, threads >>

NextService ==
    \/ UpdateVendorStats
    \/ SetVendorRelationship
    \/ SetContractValue
    \/ RecordResponseTime
    \/ PrioritizeWithService

SpecService == Init /\ [][NextService]_vars

(***************************************************************************)
(* Properties.                                                             *)
(***************************************************************************)
\* The order LOW < MEDIUM < HIGH < CRITICAL (INFORMATIONAL below LOW).
PriorityRank(p) ==
    CASE p = "CRITICAL" -> 4
      [] p = "HIGH" -> 3
      [] p = "MEDIUM" -> 2
      [] p = "LOW" -> 1
      [] OTHER -> 0

\* The order of the statuses the pipeline owns; the downstream statuses
\* come after ASSIGNED.
StatusRank(s) ==
    CASE s = "NEW" -> 0
      [] s = "CATEGORIZED" -> 1
      [] s = "PRIORITIZED" -> 2
      [] s = "ASSIGNED" -> 3
      [] OTHER -> 4

\* The fixed due-date offsets, in hours.
FixedOffset(p) ==
    CASE p = "CRITICAL" -> 2
      [] p = "HIGH" -> 8
      [] p = "MEDIUM" -> 24
      [] p \in { "LOW", "INFORMATIONAL" } -> 72

SumOf(f) ==
    LET RECURSIVE Sum(_)
        Sum(S) == IF S = {} THEN 0
                  ELSE LET x == CHOOSE y \in S : TRUE
                       IN  f[x] + Sum(S \ { x })
    IN  Sum(DOMAIN f)

Scored(id) == id \in DOMAIN inquiries /\ inquiries[id].priority # None

HitsOf(inquiry) == TextKeywords(inquiry.subject, inquiry.raw_content)

C2_BaseCriticalStaysCritical ==
    \A id \in DOMAIN inquiries :
        (Scored(id) /\ _get_base_priority(inquiries[id]) = "CRITICAL")
            => inquiries[id].priority = "CRITICAL"

\* C3 (Scenario B): a scored inquiry whose text matches no keyword at all,
\* with no reply reference and no vendor, is OTHER / GENERAL with confidence
\* 0.5, has base priority MEDIUM, final priority MEDIUM and is due one day
\* after the scoring instant.
C3_ScenarioB ==
    \A id \in DOMAIN inquiries :
        LET q == inquiries[id]
        IN  (Scored(id) /\ HitsOf(q) = {} /\ q.in_reply_to = None
             /\ q.vendor_id = None)
                => /\ q.category = "OTHER"
                   /\ q.inquiry_type = "GENERAL"
                   /\ q.confidence_score = << 1, 2 >>
                   /\ _get_base_priority(q) = "MEDIUM"
                   /\ q.priority = "MEDIUM"
                   /\ q.due_by = scored_at[id] + 24

\* C4: priority and due_by are null together, and once scored the due date
\* is the scoring instant plus the fixed offset of the final priority.
C4_DueByOffset ==
    \A id \in DOMAIN inquiries :
        LET q == inquiries[id]
        IN  /\ (q.priority = None) <=> (q.due_by = NoTime)
            /\ q.priority # None =>
                   /\ id \in DOMAIN scored_at
                   /\ q.due_by - scored_at[id] = FixedOffset(q.priority)

\* C4 witness: an inquiry created at hour 0, scored HIGH at hour 1 and due
\* at hour 9.
C4_Witness ==
    \E id \in DOMAIN inquiries :
        /\ inquiries[id].priority = "HIGH"
        /\ inquiries[id].created_at = 0
        /\ scored_at[id] = 1
        /\ inquiries[id].due_by = 9

C6_MetricsSums ==
    /\ system_metrics.inquiries_processed
           = SumOf(system_metrics.inquiries_by_category)
    /\ system_metrics.inquiries_processed
           = SumOf(system_metrics.inquiries_by_priority)

\* C6 witness: two inquiries counted, under two categories and two
\* priorities.
C6_Witness ==
    /\ system_metrics.inquiries_processed = 2
    /\ \E c1, c2 \in InquiryCategory :
          /\ c1 # c2
          /\ system_metrics.inquiries_by_category[c1] = 1
          /\ system_metrics.inquiries_by_category[c2] = 1
    /\ \E p1, p2 \in InquiryPriority :
          /\ p1 # p2
          /\ system_metrics.inquiries_by_priority[p1] = 1
          /\ system_metrics.inquiries_by_priority[p2] = 1

\* C7: no step moves the status of an inquiry to an earlier value of
\* NEW -> CATEGORIZED -> ASSIGNED than it has, resubmission included.
C7_StatusForwardOnly ==
    [][ \A id \in DOMAIN inquiries :
            StatusRank(inquiries[id].status)
                <= StatusRank(inquiries'[id].status) ]_vars

C9_SuccessResult ==
    result.status = "success" =>
        LET q == inquiries[result.inquiry_id]
        IN  /\ q.status = "ASSIGNED"
            /\ q.category \in InquiryCategory
            /\ q.inquiry_type \in InquiryType
            /\ q.priority \in InquiryPriority
            /\ q.due_by # NoTime
            /\ q.assigned_to # None
            /\ stages = << "analysis", "prioritization", "routing",
                           "notification", "metrics" >>
            /\ result.category = q.category
            /\ result.priority = q.priority
            /\ result.assigned_to = q.assigned_to

\* C9 witness: a successful return for an inquiry the load balancer moved
\* away from the vendor's previous assignee.
C9_Witness ==
    /\ result.status = "success"
    /\ "V1" \in DOMAIN vendor_assignments
    /\ inquiries[result.inquiry_id].vendor_id = "V1"
    /\ result.assigned_to # vendor_assignments["V1"]
    /\ result.notifications_sent

\* C11: after n calls of log_activity the activity log holds the last
\* min(n, 1000) entries in the order they arrived, so it never holds more
\* than 1000 and the oldest entries are the ones dropped.
C11_ActivityLogBounded ==
    LET n == Len(activity_log)
    IN  /\ n <= LogCapacity
        /\ n = IF calls < LogCapacity THEN calls ELSE LogCapacity
        /\ \A i \in 1..n : activity_log[i].inquiry_id = calls - n + i

\* C11 witness: 1002 calls made, the log full and its first entry the
\* third one logged.
C11_Witness ==
    /\ calls = 1002
    /\ Len(activity_log) = LogCapacity
    /\ activity_log[1].inquiry_id = 3
    /\ activity_log[LogCapacity].inquiry_id = 1002

\* C12: when the vendor-history override does not apply and the load
\* balancer keeps its argument, the assignee is the department's staff entry
\* for the first role of the priority's tier list that the department has;
\* if it has none of them, its specialist; failing that, one of its staff.
C12_AssigneeByTier ==
    (/\ probe.step = "done"
     /\ probe.given.priority \in DOMAIN priority_teams
     /\ probe.keep
     /\ \/ probe.given.vendor_id = None
        \/ probe.raises
        \/ probe.given.vendor_id \notin DOMAIN probe.assignments)
        => LET roles == priority_teams[probe.given.priority]
               staff == department_staff[probe.routing_result.department]
               assignee == probe.inquiry.assigned_to
               listed == { i \in 1..Len(roles) : HasRole(staff, roles[i]) }
           IN  /\ assignee = probe.routing_result.assignee
               /\ \/ \E i \in listed :
                        /\ \A j \in 1..(i - 1) : j \notin listed
                        /\ assignee = StaffOf(staff, roles[i])
                  \/ /\ listed = {}
                     /\ HasRole(staff, "specialist")
                     /\ assignee = StaffOf(staff, "specialist")
                  \/ /\ listed = {}
                     /\ ~HasRole(staff, "specialist")
                     /\ \E k \in 1..Len(staff) : assignee = staff[k][2]

\* C12 witness: a CRITICAL contract-terms inquiry without a vendor, kept by
\* the load balancer, goes to Legal's urgent response team.
C12_Witness ==
    /\ probe.step = "done"
    /\ probe.given.priority = "CRITICAL"
    /\ probe.given.vendor_id = None
    /\ probe.keep
    /\ probe.routing_result.department = "Legal"
    /\ probe.inquiry.assigned_to = "legal.urgent@example.com"

\* C13: the department is the type table's entry when the type has one,
\* else the category table's entry, else "Vendor Relations".
C13_DepartmentLookup ==
    probe.step = "done" =>
        LET t == probe.given.inquiry_type
            c == probe.given.category
            department == probe.routing_result.department
        IN  /\ t \in DOMAIN type_routing => department = type_routing[t]
            /\ (t \notin DOMAIN type_routing
                    /\ c \in DOMAIN department_routing)
                   => department = department_routing[c]
            /\ (t \notin DOMAIN type_routing
                    /\ c \notin DOMAIN department_routing)
                   => department = "Vendor Relations"

\* C13 witness: an inquiry without a type, of category FINANCE, is routed by
\* the category table to Finance.
C13_Witness ==
    /\ probe.step = "done"
    /\ probe.given.inquiry_type = None
    /\ probe.given.category = "FINANCE"
    /\ probe.routing_result.department = "Finance"

\* C14: the category confidence, the type confidence and their average, the
\* record's confidence_score, all lie between 0 and 1.
C14_ConfidenceInUnitInterval ==
    probe.step = "categorized" =>
        \A x \in { probe.category_confidence, probe.type_confidence,
                    probe.inquiry.confidence_score } :
            /\ RatLeq(Rat(0, 1), x)
            /\ RatLeq(x, Rat(1, 1))

\* C14 witness: a text whose category confidence is capped at 1 and whose
\* type confidence is below 1.
C14_Witness ==
    /\ probe.step = "categorized"
    /\ probe.category_confidence = Rat(1, 1)
    /\ probe.type_confidence # Rat(1, 1)
    /\ probe.inquiry.confidence_score # Rat(1, 1)

\* C16: when there is no vendor service, or it has no data for the vendor,
\* or it raises, the three vendor factors are false and the inquiry is
\* scored exactly as the same inquiry without a vendor id.
C16_VendorLookupDefaults ==
    (/\ probe.step = "prioritized"
     /\ probe.response.kind \in { "absent", "None", "raise" })
        => LET anonymous == [ probe.given EXCEPT !.vendor_id = None ]
               key == [ kind |-> "dict", is_key |-> TRUE,
                        has_active_contract |-> TRUE, has_history |-> TRUE ]
               scored == prioritize_inquiry(anonymous, key, probe.instant)
           IN  /\ _check_vendor_factors(probe.given, probe.response)
                      = [ is_key_vendor |-> FALSE,
                          has_active_contract |-> FALSE,
                          has_history |-> FALSE ]
               /\ probe.inquiry.priority \in InquiryPriority
               /\ probe.inquiry.priority = scored.priority
               /\ probe.inquiry.due_by = scored.due_by

\* C16 witness: the lookup raised for a vendor's inquiry, which was scored
\* LOW all the same.
C16_Witness ==
    /\ probe.step = "prioritized"
    /\ probe.given.vendor_id = "V1"
    /\ probe.response.kind = "raise"
    /\ probe.inquiry.priority = "LOW"
    /\ probe.inquiry.due_by = probe.instant + 72

C15_NotifierFailureAbsorbed ==
    [][ /\ pc = "notification" =>
               /\ pc' = "metrics"
               /\ inquiries' = inquiries
               /\ result' = result
        /\ (pc = "finish" /\ ~notification_result.sent) =>
               /\ result'.status = "success"
               /\ ~result'.notifications_sent
               /\ inquiries'[cur].status = "ASSIGNED"
               /\ stages' = << "analysis", "prioritization", "routing",
                               "notification", "metrics" >>
               /\ system_metrics'.inquiries_processed
                      = entry'.inquiries_processed + 1 ]_vars

\* C15 witness: a successful return for a CRITICAL inquiry whose
\* notifications were not sent, with the inquiry counted.
C15_Witness ==
    /\ result.status = "success"
    /\ ~result.notifications_sent
    /\ inquiries[result.inquiry_id].priority = "CRITICAL"
    /\ inquiries[result.inquiry_id].status = "ASSIGNED"
    /\ system_metrics.inquiries_processed = entry.inquiries_processed + 1

\* C18: when handle_inquiry returns the error dict, the inquiry's status is
\* NEW if the Classifier failed and CATEGORIZED if the Priority Engine or
\* the Router failed, never ASSIGNED or a later status, and the failing
\* stage has written nothing on the record.
C18_FaultLeavesLastStatus ==
    [][ (result.status # "error" /\ result'.status = "error") =>
            /\ stages' = << >> => inquiries'[cur].status = "NEW"
            /\ stages' # << >> => inquiries'[cur].status = "CATEGORIZED"
            /\ StatusRank(inquiries'[cur].status) < StatusRank("ASSIGNED")
            /\ inquiries'[cur] = inquiries[cur] ]_vars

\* C19: when handle_inquiry returns after the Notifier has failed, the
\* outcome is success and the failure is in the error log: the log is
\* longer and the error count higher than when the call was entered.
C19_CollaboratorFailureLogged ==
    [][ (pc = "finish" /\ ~notification_result.sent) =>
            /\ result'.status = "success"
            /\ Len(error_log') > entry'.errors
            /\ system_metrics'.error_count > entry'.error_count ]_vars

\* C20: after a successful handle_inquiry the inquiry's updated_at is not
\* earlier than the instant at which the Priority Engine wrote its priority
\* and due date.
C20_UpdatedAtRefreshed ==
    result.status = "success" =>
        inquiries[result.inquiry_id].updated_at
            >= scored_at[result.inquiry_id]

\* C21: when the Router has routed an inquiry that carries a vendor_id, the
\* routing service's vendor_assignments holds the assignee for that vendor,
\* so the next inquiry of the vendor finds it as previous assignee.
C21_AssignmentRecorded ==
    [][ (pc = "routing" /\ pc' = "notification"
         /\ inquiries[cur].vendor_id # None) =>
            /\ inquiries[cur].vendor_id \in DOMAIN vendor_assignments'
            /\ vendor_assignments'[inquiries[cur].vendor_id]
                   = inquiries'[cur].assigned_to ]_vars

\* C22: when the vendor-history lookup answers a previous assignee for the
\* inquiry's vendor, that assignee is the one handed to the load balancer
\* whatever the priority and the department are, and it is the inquiry's
\* assigned_to whenever the load balancer keeps its argument.
C22_VendorHistoryOverride ==
    (/\ probe.step = "done"
     /\ probe.given.vendor_id # None
     /\ ~probe.raises
     /\ probe.given.vendor_id \in DOMAIN probe.assignments)
        => LET previous_assignee == probe.assignments[probe.given.vendor_id]
               assignee == probe.inquiry.assigned_to
           IN  /\ assignee = probe.routing_result.assignee
               /\ probe.keep => assignee = previous_assignee
               /\ assignee # previous_assignee =>
                      /\ ~probe.keep
                      /\ \E k \in 1..Len(department_staff[
                                      probe.routing_result.department]) :
                             assignee = department_staff[
                                 probe.routing_result.department][k][2]

\* C22 witness: a LOW inquiry routed to Technical Support whose vendor was
\* last handled by Legal's head is assigned to Legal's head.
C22_Witness ==
    /\ probe.step = "done"
    /\ probe.given.priority = "LOW"
    /\ probe.given.vendor_id = "V1"
    /\ ~probe.raises
    /\ probe.keep
    /\ probe.assignments = ("V1" :> "legal.head@example.com")
    /\ probe.routing_result.department = "Technical Support"
    /\ probe.inquiry.assigned_to = "legal.head@example.com"

\* C23: the load balancer answers its argument, or, when it substitutes, a
\* staff member of the same department other than its argument; it answers
\* its argument when the department is not in department_staff or has no
\* other staff member.
C23_LoadBalancingWithinDepartment ==
    probe.step = "balanced" =>
        LET department == probe.department
            default_assignee == probe.default_assignee
            staff == IF department \in DOMAIN department_staff
                     THEN { department_staff[department][i][2] :
                                i \in 1..Len(department_staff[department]) }
                     ELSE {}
            substitutes == ~probe.keep /\ staff \ { default_assignee } # {}
        IN  /\ probe.assignee \in staff \cup { default_assignee }
            /\ substitutes =>
                   probe.assignee \in staff \ { default_assignee }
            /\ ~substitutes => probe.assignee = default_assignee

\* C23 witness: for Technical Support and Legal's head the load balancer
\* substitutes Technical Support's associate.
C23_Witness ==
    /\ probe.step = "balanced"
    /\ probe.department = "Technical Support"
    /\ probe.default_assignee = "legal.head@example.com"
    /\ ~probe.keep
    /\ probe.assignee = "support.associate@example.com"

\* C24: the type and its confidence come from the same procedure as the
\* category: a type of maximal keyword score with confidence
\* min(1, score / sum of all scores + 0.3), and GENERAL with confidence 0.5
\* when no type keyword occurs.
C24_TypeScoredLikeCategory ==
    probe.step = "categorized" =>
        LET hits == HitsOf(probe.inquiry)
            order == type_keywords_order
            scores == [ t \in Range(order) |->
                            KeywordScore(type_keywords[t], hits) ]
            highest == Max({ scores[t] : t \in Range(order) })
            total == SumScores(order, scores)
        IN  IF highest = 0
            THEN /\ probe.inquiry.inquiry_type = "GENERAL"
                 /\ probe.type_confidence = Rat(1, 2)
            ELSE /\ probe.inquiry.inquiry_type \in Range(order)
                 /\ scores[probe.inquiry.inquiry_type] = highest
                 /\ probe.type_confidence =
                        RatMin(RatAdd(Rat(highest, total), Rat(3, 10)),
                               Rat(1, 1))

\* C25: the category is OTHER, with confidence 0.5, exactly when no category
\* keyword occurs; otherwise it is a category of maximal keyword score, and
\* among several of them the first in the table order PREQUALIFICATION,
\* FINANCE, CONTRACT, BIDDING, ISSUE, INFORMATION.
C25_CategoryFirstMaximum ==
    probe.step = "categorized" =>
        LET hits == HitsOf(probe.inquiry)
            order == << "PREQUALIFICATION", "FINANCE", "CONTRACT", "BIDDING",
                        "ISSUE", "INFORMATION" >>
            scores == [ c \in Range(order) |->
                            KeywordScore(category_keywords[c], hits) ]
            highest == Max({ scores[c] : c \in Range(order) })
            category == probe.inquiry.category
        IN  /\ category = "OTHER" <=> highest = 0
            /\ highest = 0 => probe.category_confidence = Rat(1, 2)
            /\ highest > 0 =>
                   \E i \in 1..Len(order) :
                       /\ category = order[i]
                       /\ scores[category] = highest
                       /\ \A j \in 1..(i - 1) : scores[order[j]] < highest

\* C25 witness: a text in which two categories share the maximal score; the
\* earlier one in the table order is the result.
C25_Witness ==
    /\ probe.step = "categorized"
    /\ probe.inquiry.category \in Range(category_keywords_order)
    /\ LET hits == HitsOf(probe.inquiry)
           scores == [ c \in Range(category_keywords_order) |->
                           KeywordScore(category_keywords[c], hits) ]
       IN  \E later \in Range(category_keywords_order) :
               /\ later # probe.inquiry.category
               /\ scores[later] = scores[probe.inquiry.category]
               /\ scores[later] > 0

\* C26: when every thread's handle_inquiry has returned, no update of the
\* shared collector or of active_inquiries is lost: inquiries_processed is
\* the number of successful calls, the per-category, per-priority and
\* per-assignee counts each sum to it, error_count is the number of failed
\* calls, and both logs hold every entry written.
C26_NoLostUpdate ==
    (threads # NoThreads /\ \A t \in ThreadIds : threads[t].pc = "done") =>
        LET succeeded == { t \in ThreadIds : threads[t].status = "success" }
            failed == { t \in ThreadIds : threads[t].status = "error" }
            processed == system_metrics.inquiries_processed
        IN  /\ processed = Cardinality(succeeded)
            /\ SumOf(system_metrics.inquiries_by_category) = processed
            /\ SumOf(system_metrics.inquiries_by_priority) = processed
            /\ SumOf(performance_metrics.agent_load) = processed
            /\ system_metrics.error_count = Cardinality(failed)
            /\ Len(error_log) = Cardinality(failed)
            /\ Len(activity_log)
                   = Cardinality(ThreadIds) + Cardinality(succeeded)
            /\ active_inquiries = ThreadIds

\* C27: every inquiry the Classifier has written has a type, and the type
\* has an entry in type_priorities and in type_routing, so its base priority
\* and its department are the type's entries and the category tables are
\* not consulted; with type GENERAL they are LOW and "Vendor Relations"
\* whatever the category is.
C27_TypeDecidesBaseAndDepartment ==
    \A id \in DOMAIN inquiries :
        LET q == inquiries[id]
        IN  q.status # "NEW" =>
                /\ q.inquiry_type # None
                /\ q.inquiry_type \in DOMAIN type_priorities
                /\ q.inquiry_type \in DOMAIN type_routing
                /\ _get_base_priority(q) = type_priorities[q.inquiry_type]
                /\ (id = cur /\ routing_result # NoRouting) =>
                       routing_result.department
                           = type_routing[q.inquiry_type]
                /\ q.inquiry_type = "GENERAL" =>
                       /\ _get_base_priority(q) = "LOW"
                       /\ (id = cur /\ routing_result # NoRouting) =>
                              routing_result.department = "Vendor Relations"

\* C27 witness: an inquiry about an invoice, of category FINANCE with no
\* type keyword, has been scored from base LOW and routed to Vendor
\* Relations, where the category tables say HIGH and Finance.
C27_Witness ==
    /\ pc = "notification"
    /\ inquiries[cur].category = "FINANCE"
    /\ inquiries[cur].inquiry_type = "GENERAL"
    /\ category_priorities["FINANCE"] # "LOW"
    /\ department_routing["FINANCE"] = "Finance"
    /\ inquiries[cur].priority = "LOW"
    /\ routing_result.department = "Vendor Relations"

\* C28: update_metrics runs before handle_inquiry sets the status to
\* ASSIGNED, so every processed inquiry is counted under CATEGORIZED: the
\* CATEGORIZED count equals inquiries_processed, the ASSIGNED count is 0 and
\* the agent loads sum to inquiries_processed.
C28_CountedAsCategorized ==
    /\ queue_metrics.inquiries_by_status["CATEGORIZED"]
           = system_metrics.inquiries_processed
    /\ queue_metrics.inquiries_by_status["ASSIGNED"] = 0
    /\ SumOf(queue_metrics.inquiries_by_status)
           = system_metrics.inquiries_processed
    /\ SumOf(performance_metrics.agent_load)
           = system_metrics.inquiries_processed

\* C28 witness: two calls have succeeded, the inquiry of the last one is
\* ASSIGNED, and both are counted under CATEGORIZED.
C28_Witness ==
    /\ pc = "idle"
    /\ result.status = "success"
    /\ inquiries[result.inquiry_id].status = "ASSIGNED"
    /\ system_metrics.inquiries_processed = 2
    /\ queue_metrics.inquiries_by_status["CATEGORIZED"] = 2
    /\ queue_metrics.inquiries_by_status["ASSIGNED"] = 0

\* C29: whatever operations the PrioritizationService has performed, the
\* Priority Engine reads is_key_vendor = FALSE from it, also for a vendor
\* the service lists as key, and the priority and due date it gives are
\* those of a vendor the service does not know.
C29_ServiceNeverKeyVendor ==
    probe.step = "scored" =>
        /\ ~probe.vendor_factors.is_key_vendor
        /\ probe.vendor_factors = NoVendorFactors
        /\ probe.inquiry = probe.unknown

\* C29 witness: the service lists the inquiry's vendor as a key vendor, and
\* the inquiry has been scored LOW.
C29_Witness ==
    /\ probe.step = "scored"
    /\ probe.inquiry.vendor_id \in probe.key_vendors
    /\ vendor_data[probe.inquiry.vendor_id].contract_value > 0
    /\ probe.inquiry.priority = "LOW"

\* C30: a low urgency keyword changes nothing: for every base priority and
\* every combination of the other signals, the final priority with keyword
\* priority LOW is the final priority with no keyword priority.
C30_LowKeywordHasNoEffect ==
    (ladder.step = "done" /\ ladder.keyword_priority = "LOW") =>
        /\ ladder.after[1] = Step4a(ladder.base_priority, None)
        /\ ladder.final =
               _determine_final_priority(
                   ladder.base_priority, None, ladder.is_followup,
                   ladder.time_factors, ladder.vendor_factors)

\* C30 witness: base priority HIGH with a low urgency keyword and no other
\* signal ends at HIGH.
C30_Witness ==
    /\ ladder.step = "done"
    /\ ladder.keyword_priority = "LOW"
    /\ ladder.base_priority = "HIGH"
    /\ ~ladder.is_followup
    /\ ~ladder.time_factors.deadline_soon
    /\ ladder.final = "HIGH"

\* C10: the error log never holds more than its capacity of 1000 entries.
C10_ErrorLogBounded == Len(error_log) <= LogCapacity
====
